---- MODULE Spec2Model ----
(***************************************************************************)
(* A model of py-sandra, a schema-driven Cassandra client.                 *)
(*                                                                         *)
(*  - Spec        the Streamlit data browser of src/src/app.py: schema     *)
(*                navigation, filters and the paging_state/page_history    *)
(*                pair, over a session whose execute takes the page size   *)
(*                and the paging state the grid passes to it;              *)
(*  - SpecManager the same application over                                 *)
(*                CassandraConnectionManager.execute as it is written;     *)
(*  - SpecParse   parse_cql_type of src/src/utils/type_mapping.py;         *)
(*  - SpecDelete  CassandraGUIApp._delete_record over TableSchema's        *)
(*                derived key orderings;                                   *)
(*  - SpecInsert  the two paths that lead to an insert.                    *)
(*                                                                         *)
(* Text (statements, type expressions, str() of a dict) is a sequence of   *)
(* tokens: an identifier or a value is one token, punctuation is a token   *)
(* of its own.                                                             *)
(***************************************************************************)
EXTENDS Integers, Sequences, FiniteSets, TLC

VARIABLES
    \* ---- the data browser (app.py) ----
    layer,                \* which execute the grid's call reaches
    connected,            \* CassandraConnectionManager.is_connected
    selected_keyspace,    \* widget "selected_keyspace" ("" = not rendered)
    selected_table,       \* widget "selected_table"    ("" = not rendered)
    filter_text,          \* widgets "Filter <column>": column -> text
    page_size,            \* widget "page_size_selector"
    current_table_name,   \* st.session_state.current_table_name
    current_table_schema, \* st.session_state.current_table_schema
    paging_state,         \* st.session_state.paging_state
    page_history,         \* st.session_state.page_history
    last_filter_hash,     \* st.session_state.last_filter_hash
    rows,                 \* what the last script run's grid render did
    rendered,             \* the most recent grid render: its table, its filters
    event,                \* the user action that caused the last script run
    before_next,          \* paging_state/page_history as they were before the last Next
    \* ---- parse_cql_type ----
    cql_type,             \* the type expression under parse (a tree)
    parsed,               \* the result of parse_cql_type on its text
    \* ---- delete / insert ----
    schema,               \* the TableSchema handed to the operation
    row,                  \* the row (delete) or the form input (insert)
    op,                   \* what the operation did
    \* ---- functions applied on their own ----
    call,                 \* the function applied and its arguments
    ret,                  \* what it returned or raised
    \* ---- ConfigManager (settings.py) ----
    settings,             \* ConfigManager._settings: connections and table_metadata
    \* ---- CassandraConnectionManager (connection.py) ----
    manager,              \* _cluster, _session, _current_profile, _current_keyspace
    \* ---- the dialogs of the application (app.py) ----
    delete_target,        \* st.session_state.delete_target and the DELETEs executed
    map_editor            \* st.session_state.map_editor_target, map_schema_working_copy

gridVars == << layer, connected, selected_keyspace, selected_table, filter_text,
               page_size, current_table_name, current_table_schema, paging_state,
               page_history, last_filter_hash, rows, rendered, event,
               before_next >>
parseVars == << cql_type, parsed >>
crudVars == << schema, row, op >>
callVars == << call, ret >>
appVars == << settings, manager, delete_target, map_editor >>
vars == << gridVars, parseVars, crudVars, callVars, appVars >>

-----------------------------------------------------------------------------
(* Bounds *)

\* pages an unfiltered SELECT * of a table spans
NumPages == 3

\* sessions a connection manager opens in all
MaxSessions == 3

\* nesting depth of the generated type expressions
MaxDepth == 2

-----------------------------------------------------------------------------
(* Helpers on sequences *)

Range(s) == { s[i] : i \in 1..Len(s) }

RECURSIVE Concat(_)
Concat(ss) == IF ss = << >> THEN << >> ELSE Head(ss) \o Concat(Tail(ss))

\* sep.join(parts), each part a token sequence
RECURSIVE Join(_, _)
Join(parts, sep) ==
    IF parts = << >> THEN << >>
    ELSE IF Len(parts) = 1 THEN Head(parts)
    ELSE Head(parts) \o sep \o Join(Tail(parts), sep)

-----------------------------------------------------------------------------
(* The catalogue the connected cluster serves: keyspaces, their tables and  *)
(* the rows of system_schema.columns.                                       *)

CatalogRow(name, type, kind, position, order) ==
    [ column_name |-> name, type |-> type, kind |-> kind,
      position |-> position, clustering_order |-> order ]

CatalogColumns(ks, t) ==
    IF t = "users"
    THEN << CatalogRow("id", "uuid", "partition_key", 0, "none"),
            CatalogRow("status", "text", "regular", -1, "none") >>
    ELSE IF t = "visits"
    THEN << CatalogRow("id", "uuid", "partition_key", 0, "none"),
            CatalogRow("kind", "text", "regular", -1, "none") >>
    ELSE << >>

\* the names of the model in the order Python's str comparison gives them
NameOrder ==
    << "a_table", "app", "ks1", "ks2", "system", "system_auth",
       "system_distributed", "system_foo", "system_schema", "system_traces",
       "system_views", "system_virtual_schema", "users", "vanished", "visits", "zoo" >>

name_rank(n) == CHOOSE i \in 1..Len(NameOrder) : NameOrder[i] = n

RECURSIVE insert_name(_, _)
insert_name(sorted, n) ==
    IF sorted = << >> THEN << n >>
    ELSE IF name_rank(Head(sorted)) <= name_rank(n)
         THEN << Head(sorted) >> \o insert_name(Tail(sorted), n)
         ELSE << n >> \o sorted

\* sorted([...]) of names
RECURSIVE sorted_names(_)
sorted_names(names) ==
    IF names = << >> THEN << >>
    ELSE insert_name(sorted_names(SubSeq(names, 1, Len(names) - 1)), names[Len(names)])

\* system_keyspaces of get_keyspaces
system_keyspaces ==
    { "system", "system_auth", "system_schema", "system_distributed", "system_traces",
      "system_views", "system_virtual_schema" }

RECURSIVE names_outside(_, _)
names_outside(names, excluded) ==
    IF names = << >> THEN << >>
    ELSE IF Head(names) \notin excluded
         THEN << Head(names) >> \o names_outside(Tail(names), excluded)
         ELSE names_outside(Tail(names), excluded)

\* a listing that leaves out every keyspace whose name begins with "system"
list_keyspaces_by_prefix(found) == sorted_names(names_outside(found, system_keyspaces \cup { "system_foo" }))

\* get_keyspaces on the rows the query returned
list_keyspaces(found) == sorted_names(names_outside(found, system_keyspaces))

\* get_tables on the rows the query returned
list_tables(found) == sorted_names(found)

\* SchemaInspector.get_keyspaces
\* the rows of system_schema.keyspaces, in the order the cluster returns them
get_keyspaces == list_keyspaces(<< "system", "ks2", "system_schema", "ks1" >>)

\* SchemaInspector.get_tables
\* the rows of system_schema.tables for a keyspace; ks2.vanished is a table whose
\* column rows are gone by the time they are read
get_tables(ks) ==
    list_tables(IF ks = "ks1" THEN << "visits", "users" >>
                ELSE IF ks = "ks2" THEN << "vanished", "users" >>
                ELSE << >>)

\* ColumnInfo built from one catalogue row
ColumnInfo(r) ==
    [ name |-> r.column_name,
      cql_type |-> r.type,
      is_partition_key |-> r.kind = "partition_key",
      is_clustering_key |-> r.kind = "clustering",
      clustering_order |-> IF r.clustering_order = "" THEN "ASC" ELSE r.clustering_order,
      position |-> r.position ]

\* get_table_schema on the rows the query returned: one ColumnInfo per row, in
\* row order
table_schema(ks, t, found) ==
    [ keyspace |-> ks,
      table_name |-> t,
      columns |-> [ i \in 1..Len(found) |-> ColumnInfo(found[i]) ] ]

\* SchemaInspector.get_table_schema
get_table_schema(ks, t) == table_schema(ks, t, CatalogColumns(ks, t))

\* 'current_table_schema' not in st.session_state
NoSchema == [ keyspace |-> "", table_name |-> "", columns |-> << >> ]

-----------------------------------------------------------------------------
(* The data browser: widgets *)

ColNames == { "id", "status", "kind" }

\* the options of "Rows per page"
PageSizes == << 10, 25, 50 >>

NoFilterText == [ c \in ColNames |-> "" ]

ColumnNames(sch) == { sch.columns[i].name : i \in 1..Len(sch.columns) }

-----------------------------------------------------------------------------
(* The data browser: the select and its execution *)

\* Python None as a paging state. A paging state a result set returns is opaque
\* to the application; here it carries the statement and parameters of the
\* execution that returned it and the page it resumes at.
None == [ query |-> << >>, params |-> << >>, page |-> 0 ]

\* filter_params: {column: text} for the columns whose filter box is non-empty,
\* in schema.columns order (the insertion order of the dict)
RECURSIVE filter_params(_, _)
filter_params(columns, ftext) ==
    IF columns = << >> THEN << >>
    ELSE IF ftext[Head(columns).name] # ""
         THEN << << Head(columns).name, ftext[Head(columns).name] >> >>
                  \o filter_params(Tail(columns), ftext)
         ELSE filter_params(Tail(columns), ftext)

\* repr of a str
Repr(s) == << "'", s, "'" >>

\* str(filter_params): "{'k': 'v', 'k2': 'v2'}"
str_dict(fp) ==
    << "{" >>
    \o Join([ i \in 1..Len(fp) |-> Repr(fp[i][1]) \o << ": " >> \o Repr(fp[i][2]) ],
            << ", " >>)
    \o << "}" >>

\* the statement text _render_data_grid builds
select_query(sch, fp) ==
    << "SELECT * FROM ", sch.keyspace, ".", sch.table_name >>
    \o ( IF fp # << >>
         THEN << " WHERE " >>
              \o Join([ i \in 1..Len(fp) |-> << fp[i][1], " = %s" >> ], << " AND " >>)
              \o << " ALLOW FILTERING" >>
         ELSE << >> )

\* the filter values, last filter first
select_params_reversed(fp) == [ i \in 1..Len(fp) |-> fp[Len(fp) + 1 - i][2] ]

\* tuple(filter_params.values())
select_params(fp) == [ i \in 1..Len(fp) |-> fp[i][2] ]

\* what the cluster may do with a paging state another statement returned
UndefinedOutcomes == { "resume", "error" }

NoRows ==
    [ outcome |-> "none", query |-> << >>, params |-> << >>, page_size |-> 0,
      cursor |-> None, history |-> << >>, has_more_pages |-> FALSE,
      paging_state |-> None ]

\* a session's execute(statement, parameters, fetch size, paging state): the page
\* the paging state resumes at, whether more pages follow, and the next paging state
session_execute(query, params, psize, ps, history, undef) ==
    LET foreign == ps # None /\ (ps.query # query \/ ps.params # params)
        \* an unfiltered statement spans NumPages pages, a filtered one one less
        more == ps.page + 1 < (IF params = << >> THEN NumPages ELSE NumPages - 1)
    IN  [ outcome |-> IF foreign /\ undef = "error" THEN "error" ELSE "page",
          query |-> query, params |-> params, page_size |-> psize,
          cursor |-> ps, history |-> history,
          has_more_pages |-> more /\ ~(foreign /\ undef = "error"),
          paging_state |-> IF more /\ ~(foreign /\ undef = "error")
                           THEN [ query |-> query, params |-> params, page |-> ps.page + 1 ]
                           ELSE None ]

\* self._connection.execute(query, [values,] page_size=..., paging_state=...)
connection_execute(query, params, psize, ps, history, undef) ==
    \* the grid passes page_size and paging_state by keyword; execute of the manager
    \* takes query and parameters
    IF layer = "manager"
       /\ ~({ "page_size", "paging_state" } \subseteq { "query", "parameters" })
    THEN [ NoRows EXCEPT !.outcome = "TypeError", !.query = query, !.params = params ]
    ELSE session_execute(query, params, psize, ps, history, undef)

-----------------------------------------------------------------------------
(* The data browser: one script run.  st.session_state is the record        *)
(* [current_table_name, current_table_schema, paging_state, page_history,   *)
(* last_filter_hash]; a key that is absent is held as the value the code    *)
(* gives it before its first read ("" for current_table_name, None and []   *)
(* for the paging pair, the empty text for last_filter_hash).               *)

SessionState ==
    [ current_table_name |-> current_table_name,
      current_table_schema |-> current_table_schema,
      paging_state |-> paging_state,
      page_history |-> page_history,
      last_filter_hash |-> last_filter_hash ]

\* _render_sidebar, the schema navigation
render_sidebar(ss, conn, ks, t) ==
    IF conn /\ ks # "" /\ t # ""
    THEN LET \* "Reset pagination when table changes"
             s1 == IF ss.current_table_name # t
                   THEN [ ss EXCEPT !.current_table_name = t,
                                    !.paging_state = None,
                                    !.page_history = << >> ]
                   ELSE ss
         IN  [ s1 EXCEPT !.current_table_schema = get_table_schema(ks, t) ]
    ELSE ss

\* a filter detection that compares the lengths of the two texts only
filters_changed_by_length(ss, fp) == Len(ss.last_filter_hash) # Len(str_dict(fp))

\* "Reset pagination if filters change (simple detection)"
filters_changed(ss, fp) == ss.last_filter_hash # str_dict(fp)

\* _render_data_grid up to the execute call: the session state it leaves
grid_state(ss, fp) ==
    IF filters_changed(ss, fp)
    THEN [ ss EXCEPT !.last_filter_hash = str_dict(fp),
                     !.paging_state = None,
                     !.page_history = << >> ]
    ELSE ss

NotRendered ==
    [ seen |-> FALSE, keyspace |-> "", table_name |-> "", filter_params |-> << >>,
      entered_with |-> None ]

\* run(): the sidebar, then the grid when a connection and a schema are there
script_run(ss, conn, ks, t, ftext, psize, undef) ==
    LET s1 == render_sidebar(ss, conn, ks, t)
        fp == filter_params(s1.current_table_schema.columns, ftext)
    IN  IF conn /\ s1.current_table_schema # NoSchema
        THEN [ ss |-> grid_state(s1, fp),
               \* _render_data_grid: the execute call of the render
               rows |-> connection_execute(
                            select_query(s1.current_table_schema, fp), select_params(fp),
                            psize, grid_state(s1, fp).paging_state,
                            grid_state(s1, fp).page_history, undef),
               grid |-> TRUE,
               rendered |-> [ seen |-> TRUE,
                              keyspace |-> s1.current_table_schema.keyspace,
                              table_name |-> s1.current_table_schema.table_name,
                              filter_params |-> fp,
                              entered_with |-> ss.paging_state ] ]
        ELSE [ ss |-> s1, rows |-> NoRows, grid |-> FALSE, rendered |-> NotRendered ]

\* a Next that advances first and pushes the new paging state
next_click_pushes_new(ss, rs) ==
    [ ss EXCEPT !.page_history = Append(ss.page_history, rs.paging_state),
                !.paging_state = rs.paging_state ]

\* a Next that advances without pushing
next_click_keeps_history(ss, rs) == [ ss EXCEPT !.paging_state = rs.paging_state ]

\* the Next button's handler
next_click(ss, rs) ==
    [ ss EXCEPT !.page_history = Append(ss.page_history, ss.paging_state),
                !.paging_state = rs.paging_state ]

\* a Previous that takes the oldest entry
previous_click_oldest(ss) ==
    [ ss EXCEPT !.paging_state = Head(ss.page_history),
                !.page_history = Tail(ss.page_history) ]

\* the Previous button's handler
previous_click(ss) ==
    [ ss EXCEPT !.paging_state = ss.page_history[Len(ss.page_history)],
                !.page_history = SubSeq(ss.page_history, 1, Len(ss.page_history) - 1) ]

\* _disconnect
disconnect(ss) == [ ss EXCEPT !.current_table_schema = NoSchema ]

\* the state a script run leaves; a widget the run did not render loses its value
Leave(run, conn, ks, t, ftext, psize, ev) ==
    /\ connected' = conn
    /\ selected_keyspace' = IF conn THEN ks ELSE ""
    /\ selected_table' = IF conn THEN t ELSE ""
    /\ filter_text' = [ c \in ColNames |->
                          IF run.grid /\ c \in ColumnNames(run.ss.current_table_schema)
                          THEN ftext[c] ELSE "" ]
    /\ page_size' = IF run.grid THEN psize ELSE PageSizes[1]
    /\ current_table_name' = run.ss.current_table_name
    /\ current_table_schema' = run.ss.current_table_schema
    /\ paging_state' = run.ss.paging_state
    /\ page_history' = run.ss.page_history
    /\ last_filter_hash' = run.ss.last_filter_hash
    /\ rows' = run.rows
    /\ rendered' = IF run.grid THEN run.rendered ELSE rendered
    /\ event' = ev
    /\ UNCHANGED << layer, parseVars, callVars >>

NoSnapshot ==
    [ taken |-> FALSE, undone |-> FALSE, paging_state |-> None, page_history |-> << >> ]

-----------------------------------------------------------------------------
(* The data browser: the user's actions, each with the script run(s) it causes *)

GridInit(l) ==
    /\ layer = l
    /\ connected = FALSE
    /\ selected_keyspace = ""
    /\ selected_table = ""
    /\ filter_text = NoFilterText
    /\ page_size = PageSizes[1]
    /\ current_table_name = ""
    /\ current_table_schema = NoSchema
    /\ paging_state = None
    /\ page_history = << >>
    /\ last_filter_hash = << >>
    /\ rows = NoRows
    /\ rendered = NotRendered
    /\ event = "start"
    /\ before_next = NoSnapshot

\* "Connect": connect(profile) fails, or succeeds and the script reruns
Connect ==
    \E ok \in BOOLEAN, keep \in BOOLEAN, u \in UndefinedOutcomes :
        /\ keep => (ok /\ connected)
        /\ LET ks == IF keep THEN selected_keyspace ELSE get_keyspaces[1]
               t == IF keep THEN selected_table ELSE get_tables(ks)[1]
               ft == IF keep THEN filter_text ELSE NoFilterText
               ps == IF keep THEN page_size ELSE PageSizes[1]
           IN  Leave(script_run(SessionState, ok, ks, t, ft, ps, u),
                     ok, ks, t, ft, ps, "connect")
        /\ before_next' = NoSnapshot
        /\ UNCHANGED << crudVars, appVars >>

\* "Disconnect"
Disconnect ==
    /\ connected
    /\ Leave(script_run(disconnect(SessionState), FALSE, "", "", NoFilterText,
                        PageSizes[1], "resume"),
             FALSE, "", "", NoFilterText, PageSizes[1], "disconnect")
    /\ before_next' = NoSnapshot
    /\ UNCHANGED << crudVars, appVars >>

\* the user picks another keyspace
SelectKeyspace ==
    \E ks \in Range(get_keyspaces), u \in UndefinedOutcomes :
        /\ connected
        /\ ks # selected_keyspace
        \* the table box shows its first option, or the name it held when the new
        \* keyspace has it too
        /\ \E t \in { get_tables(ks)[1] }
                      \cup ({ selected_table } \cap Range(get_tables(ks))) :
               Leave(script_run(SessionState, TRUE, ks, t, filter_text, page_size, u),
                     TRUE, ks, t, filter_text, page_size, "select_keyspace")
        /\ before_next' = NoSnapshot
        /\ UNCHANGED << crudVars, appVars >>

\* the user picks another table of the keyspace
SelectTable ==
    \E t \in Range(get_tables(selected_keyspace)), u \in UndefinedOutcomes :
        /\ connected
        /\ t # selected_table
        /\ Leave(script_run(SessionState, TRUE, selected_keyspace, t, filter_text,
                            page_size, u),
                 TRUE, selected_keyspace, t, filter_text, page_size, "select_table")
        /\ before_next' = NoSnapshot
        /\ UNCHANGED << crudVars, appVars >>

\* the user edits one filter box of the grid
EditFilter ==
    \E c \in ColumnNames(current_table_schema), v \in { "", "a", "b" },
       u \in UndefinedOutcomes :
        /\ connected
        /\ v # filter_text[c]
        /\ LET ft == [ filter_text EXCEPT ![c] = v ]
           IN  Leave(script_run(SessionState, TRUE, selected_keyspace, selected_table,
                                ft, page_size, u),
                     TRUE, selected_keyspace, selected_table, ft, page_size,
                     "edit_filter")
        /\ before_next' = NoSnapshot
        /\ UNCHANGED << crudVars, appVars >>

\* the user picks another page size
SelectPageSize ==
    \E n \in Range(PageSizes), u \in UndefinedOutcomes :
        /\ connected
        /\ current_table_schema # NoSchema
        /\ n # page_size
        /\ Leave(script_run(SessionState, TRUE, selected_keyspace, selected_table,
                            filter_text, n, u),
                 TRUE, selected_keyspace, selected_table, filter_text, n, "page_size")
        /\ before_next' = NoSnapshot
        /\ UNCHANGED << crudVars, appVars >>

\* the script run a button click starts, up to the buttons
ClickRun(u) ==
    script_run(SessionState, TRUE, selected_keyspace, selected_table, filter_text,
               page_size, u)

\* "Next": the click's run renders the page again, the handler moves the paging
\* pair and st.rerun() renders the next page
ClickNext ==
    \E u1 \in UndefinedOutcomes, u2 \in UndefinedOutcomes :
        /\ connected
        /\ rows.outcome = "page"
        /\ rows.has_more_pages
        /\ LET r1 == ClickRun(u1)
               shown == r1.rows.outcome = "page" /\ r1.rows.has_more_pages
           IN  /\ Leave(IF shown
                        THEN script_run(next_click(r1.ss, r1.rows), TRUE,
                                        selected_keyspace, selected_table, filter_text,
                                        page_size, u2)
                        ELSE r1,
                        TRUE, selected_keyspace, selected_table, filter_text, page_size,
                        IF shown THEN "next" ELSE "rerun")
               /\ before_next' =
                      IF shown
                      THEN [ taken |-> TRUE, undone |-> FALSE,
                             paging_state |-> paging_state,
                             page_history |-> page_history ]
                      ELSE NoSnapshot
        /\ UNCHANGED << crudVars, appVars >>

\* "Previous"
ClickPrevious ==
    \E u1 \in UndefinedOutcomes, u2 \in UndefinedOutcomes :
        /\ connected
        /\ rows.outcome = "page"
        /\ page_history # << >>
        /\ LET r1 == ClickRun(u1)
               shown == r1.rows.outcome = "page" /\ r1.ss.page_history # << >>
           IN  /\ Leave(IF shown
                        THEN script_run(previous_click(r1.ss), TRUE, selected_keyspace,
                                        selected_table, filter_text, page_size, u2)
                        ELSE r1,
                        TRUE, selected_keyspace, selected_table, filter_text, page_size,
                        IF shown THEN "previous" ELSE "rerun")
               /\ before_next' =
                      IF shown /\ event = "next" /\ before_next.taken
                      THEN [ before_next EXCEPT !.undone = TRUE ]
                      ELSE NoSnapshot
        /\ UNCHANGED << crudVars, appVars >>


-----------------------------------------------------------------------------
(* parse_cql_type.  A type expression is generated as a tree and written    *)
(* out as the catalogue writes it: base<param, param>.                      *)

\* the expressions: built from the types text and int, which take no parameter, the
\* generic types list and frozen of one parameter, and map
RECURSIVE TypeTrees(_)
TypeTrees(depth) ==
    IF depth = 0
    THEN { [ base |-> b, params |-> << >> ] : b \in { "text", "int" } }
    ELSE TypeTrees(0)
         \cup { [ base |-> g, params |-> << t >> ] :
                    g \in { "list", "frozen" }, t \in TypeTrees(depth - 1) }
         \cup { [ base |-> "map", params |-> << k, v >> ] :
                    k \in TypeTrees(depth - 1), v \in TypeTrees(depth - 1) }

\* the text of a type expression
RECURSIVE type_text(_)
type_text(tree) ==
    IF tree.params = << >> THEN << tree.base >>
    ELSE << tree.base, "<" >>
         \o Join([ i \in 1..Len(tree.params) |-> type_text(tree.params[i]) ],
                 << ",", " " >>)
         \o << ">" >>

\* text.split(sep)
RECURSIVE Split(_, _, _)
Split(text, sep, piece) ==
    IF text = << >> THEN << piece >>
    ELSE IF Head(text) = sep THEN << piece >> \o Split(Tail(text), sep, << >>)
    ELSE Split(Tail(text), sep, Append(piece, Head(text)))

\* text.strip()
RECURSIVE Strip(_)
Strip(text) ==
    IF text = << >> THEN << >>
    ELSE IF Head(text) = " " THEN Strip(Tail(text))
    ELSE IF text[Len(text)] = " " THEN Strip(SubSeq(text, 1, Len(text) - 1))
    ELSE text

\* re.match(r'(\w+)<(.+)>$', text)
generic_match(text) ==
    /\ Len(text) >= 4
    /\ text[1] \notin { "<", ">", ",", " " }    \* \w+
    /\ text[2] = "<"
    /\ text[Len(text)] = ">"

\* the parameters parse_cql_type takes from the text between the brackets
split_params(params_str) ==
    IF "," \in Range(params_str) /\ "<" \notin Range(params_str)
    THEN [ i \in 1..Len(Split(params_str, ",", << >>)) |->
               Strip(Split(params_str, ",", << >>)[i]) ]
    ELSE << params_str >>

\* parse_cql_type: (base_type, params), params None when the text is not generic
parse_cql_type(text) ==
    IF generic_match(text)
    THEN [ base_type |-> << text[1] >>, generic |-> TRUE,
           params |-> split_params(SubSeq(text, 3, Len(text) - 1)) ]
    ELSE [ base_type |-> text, generic |-> FALSE, params |-> << >> ]

NotParsed == [ done |-> FALSE, base_type |-> << >>, generic |-> FALSE, params |-> << >> ]

ParseIdle ==
    /\ cql_type = [ base |-> "text", params |-> << >> ]
    /\ parsed = NotParsed

\* the column's type expression is parsed
Parse ==
    /\ ~parsed.done
    /\ parsed' = [ done |-> TRUE,
                   base_type |-> parse_cql_type(type_text(cql_type)).base_type,
                   generic |-> parse_cql_type(type_text(cql_type)).generic,
                   params |-> parse_cql_type(type_text(cql_type)).params ]
    /\ UNCHANGED << cql_type, gridVars, crudVars, callVars, appVars >>

NoReturn == [ outcome |-> "none" ]

-----------------------------------------------------------------------------
(* The type registry and the conversions.  A Python value is a record       *)
(* [py, text, num]: its class, the text a str or a UUID holds (as tokens, a *)
(* digit being a token of its own) and the number an int holds.             *)

PyStr(text) == [ py |-> "str", text |-> text, num |-> 0 ]

PyInt(n) == [ py |-> "int", text |-> << >>, num |-> n ]

PyUuid(u) == [ py |-> "UUID", text |-> << u >>, num |-> 0 ]

PyNone == [ py |-> "NoneType", text |-> << >>, num |-> 0 ]

\* True and False
PyBool(b) == [ py |-> "bool", text |-> << >>, num |-> IF b THEN 1 ELSE 0 ]

\* a list, a set or a dict: its members in iteration order, each the JSON token of a
\* scalar; a dict holds key, value, key, value
PyOf(kind, items) == [ py |-> kind, text |-> items, num |-> 0 ]

DigitChars == << "0", "1", "2", "3", "4", "5", "6", "7", "8", "9" >>

\* str(n) of a natural number
RECURSIVE nat_text(_)
nat_text(n) ==
    IF n < 10 THEN << DigitChars[n + 1] >>
    ELSE nat_text(n \div 10) \o << DigitChars[(n % 10) + 1] >>

\* the digits an int literal holds after its sign
unsigned(text) ==
    IF text # << >> /\ Head(text) \in { "-", "+" } THEN Tail(text) ELSE text

\* whether int(text) returns: an optional sign, then digits
is_int_text(text) ==
    /\ unsigned(text) # << >>
    /\ \A i \in 1..Len(unsigned(text)) : unsigned(text)[i] \in Range(DigitChars)

RECURSIVE nat_of(_)
nat_of(digits) ==
    IF digits = << >> THEN 0
    ELSE 10 * nat_of(SubSeq(digits, 1, Len(digits) - 1))
         + (CHOOSE i \in 1..Len(DigitChars) : DigitChars[i] = digits[Len(digits)]) - 1

\* an int(text) that drops the sign
int_of_unsigned(text) == nat_of(unsigned(text))

\* int(text), where it returns
int_of(text) ==
    IF Head(text) = "-" THEN -nat_of(unsigned(text)) ELSE nat_of(unsigned(text))

\* the texts uuid.UUID(...) accepts, among the texts the values are drawn from
UuidTexts == { "123e4567-e89b-12d3-a456-426614174000" }

\* what uuid.uuid4() may return
FreshUuids == { "uuid4-1", "uuid4-2" }

\* str(value)
py_str(value) ==
    IF value.py = "str" THEN value
    ELSE IF value.py = "int"
         THEN PyStr(IF value.num < 0 THEN << "-" >> \o nat_text(-value.num)
                    ELSE nat_text(value.num))
    ELSE IF value.py = "UUID" THEN PyStr(value.text)
    ELSE IF value.py = "bool" THEN PyStr(IF value.num = 1 THEN << "True" >> ELSE << "False" >>)
    ELSE PyStr(<< "None" >>)

\* not value
falsy(value) ==
    \/ value = PyNone
    \/ value.py = "str" /\ value.text = << >>
    \/ value.py \in { "int", "bool" } /\ value.num = 0
    \/ value.py \in { "list", "set", "dict" } /\ value.text = << >>

\* the members of a sequence, each once, in the order they first occur
RECURSIVE distinct(_)
distinct(items) ==
    IF items = << >> THEN << >>
    ELSE LET front == distinct(SubSeq(items, 1, Len(items) - 1))
         IN  IF items[Len(items)] \in Range(front) THEN front
             ELSE Append(front, items[Len(items)])

\* set(items): the members once each; the order a set iterates in is the
\* interpreter's, here the order of first occurrence or its reverse, which are all
\* the orders of a set of two
set_of(items, fresh) ==
    IF fresh = "uuid4-1" THEN distinct(items)
    ELSE [ i \in 1..Len(distinct(items)) |->
               distinct(items)[Len(distinct(items)) + 1 - i] ]

\* json.loads(text): a number, an array of scalars, an object of scalars keyed by
\* strings (the keys of the texts drawn are distinct), or JSONDecodeError
json_loads(text) ==
    LET inner == SubSeq(text, 2, Len(text) - 1)
        marks == { "[", "]", "{", "}", ", ", ": " }
        is_string(tok) == tok \in { "\"a\"", "\"b\"" }
        is_scalar(tok) == is_string(tok) \/ tok \in Range(DigitChars)
    IN  IF is_int_text(text) /\ Head(text) # "+"
        THEN [ outcome |-> "returned", value |-> PyInt(int_of(text)) ]
        ELSE IF Len(text) >= 2 /\ Head(text) = "[" /\ text[Len(text)] = "]"
                /\ ( inner = << >> \/ Len(inner) % 2 = 1 )
                /\ \A i \in 1..Len(inner) :
                       IF i % 2 = 1 THEN is_scalar(inner[i]) ELSE inner[i] = ", "
        THEN [ outcome |-> "returned",
               value |-> PyOf("list", SelectSeq(inner, LAMBDA tok : tok # ", ")) ]
        ELSE IF Len(text) >= 2 /\ Head(text) = "{" /\ text[Len(text)] = "}"
                /\ ( inner = << >> \/ Len(inner) % 4 = 3 )
                /\ \A i \in 1..Len(inner) :
                       IF i % 4 = 1 THEN is_string(inner[i])
                       ELSE IF i % 4 = 2 THEN inner[i] = ": "
                       ELSE IF i % 4 = 3 THEN is_scalar(inner[i])
                       ELSE inner[i] = ", "
        THEN [ outcome |-> "returned",
               value |-> PyOf("dict", SelectSeq(inner, LAMBDA tok : tok \notin marks)) ]
        ELSE [ outcome |-> "JSONDecodeError", value |-> PyNone ]

\* json.dumps(value, default=str)
json_dumps(value) ==
    LET quoted(text) == << "\"" >> \o text \o << "\"" >>
    IN  IF value.py \in { "list", "set" }
        THEN << "[" >> \o Join([ i \in 1..Len(value.text) |-> << value.text[i] >> ],
                                << ", " >>) \o << "]" >>
        ELSE IF value.py = "dict"
        THEN << "{" >>
             \o Join([ i \in 1..(Len(value.text) \div 2) |->
                          << value.text[2 * i - 1], ": ", value.text[2 * i] >> ],
                     << ", " >>)
             \o << "}" >>
        ELSE IF value.py = "bool" THEN IF value.num = 1 THEN << "true" >> ELSE << "false" >>
        ELSE IF value.py = "NoneType" THEN << "null" >>
        ELSE IF value.py = "int" THEN py_str(value).text
        ELSE quoted(py_str(value).text)

\* CQL_TYPE_MAP: python_type and widget of each base type
CQL_TYPE_MAP ==
    [ int |-> [ python_type |-> "int", widget |-> "spinbox" ],
      bigint |-> [ python_type |-> "int", widget |-> "spinbox" ],
      smallint |-> [ python_type |-> "int", widget |-> "spinbox" ],
      tinyint |-> [ python_type |-> "int", widget |-> "spinbox" ],
      varint |-> [ python_type |-> "int", widget |-> "lineedit" ],
      float |-> [ python_type |-> "float", widget |-> "doublespinbox" ],
      double |-> [ python_type |-> "float", widget |-> "doublespinbox" ],
      decimal |-> [ python_type |-> "Decimal", widget |-> "lineedit" ],
      counter |-> [ python_type |-> "int", widget |-> "spinbox" ],
      text |-> [ python_type |-> "str", widget |-> "textedit" ],
      varchar |-> [ python_type |-> "str", widget |-> "lineedit" ],
      ascii |-> [ python_type |-> "str", widget |-> "lineedit" ],
      boolean |-> [ python_type |-> "bool", widget |-> "checkbox" ],
      uuid |-> [ python_type |-> "UUID", widget |-> "lineedit" ],
      timeuuid |-> [ python_type |-> "UUID", widget |-> "lineedit" ],
      timestamp |-> [ python_type |-> "datetime", widget |-> "datetime" ],
      date |-> [ python_type |-> "date", widget |-> "date" ],
      time |-> [ python_type |-> "time", widget |-> "time" ],
      duration |-> [ python_type |-> "str", widget |-> "lineedit" ],
      blob |-> [ python_type |-> "bytes", widget |-> "textedit" ],
      inet |-> [ python_type |-> "str", widget |-> "lineedit" ],
      list |-> [ python_type |-> "list", widget |-> "textedit" ],
      set |-> [ python_type |-> "set", widget |-> "textedit" ],
      map |-> [ python_type |-> "dict", widget |-> "textedit" ],
      tuple |-> [ python_type |-> "tuple", widget |-> "textedit" ],
      frozen |-> [ python_type |-> "object", widget |-> "textedit" ] ]

\* the min and max CQL_TYPE_MAP gives the integer types; bigint's lie outside the
\* integers of the model
IntegerRanges ==
    [ tinyint |-> [ min |-> -128, max |-> 127 ],
      smallint |-> [ min |-> -32768, max |-> 32767 ],
      int |-> [ min |-> -2147483647 - 1, max |-> 2147483647 ] ]

\* base_type in CQL_TYPE_MAP
in_registry(base_type) == Len(base_type) = 1 /\ base_type[1] \in DOMAIN CQL_TYPE_MAP

\* get_type_info
get_type_info(text) ==
    IF in_registry(parse_cql_type(text).base_type)
    THEN [ known |-> TRUE,
           python_type |-> CQL_TYPE_MAP[parse_cql_type(text).base_type[1]].python_type,
           widget |-> CQL_TYPE_MAP[parse_cql_type(text).base_type[1]].widget,
           cql_type |-> text,
           base_type |-> parse_cql_type(text).base_type,
           type_params |-> parse_cql_type(text).params ]
    ELSE [ known |-> FALSE,
           python_type |-> "str",
           widget |-> "lineedit",
           cql_type |-> text,
           base_type |-> parse_cql_type(text).base_type,
           type_params |-> parse_cql_type(text).params ]

Returned(value) == [ outcome |-> "returned", value |-> value ]

Raised(error) == [ outcome |-> error, value |-> PyNone ]

\* a convert_value that hands the value back as it came
convert_value_unconverted(value, text, fresh) == Returned(value)

\* convert_value(value, cql_type); fresh is what uuid.uuid4() would return
convert_value(value, text, fresh) ==
    LET base_type == parse_cql_type(text).base_type
    IN  IF value = PyNone \/ value = PyStr(<< >>) THEN Returned(PyNone)
        ELSE IF base_type \in { << "int" >>, << "bigint" >>, << "smallint" >>,
                                << "tinyint" >>, << "varint" >> }
        THEN IF value.py \in { "int", "bool" } THEN Returned(PyInt(value.num))
             ELSE IF value.py = "str" /\ is_int_text(value.text)
             THEN Returned(PyInt(int_of(value.text)))
             ELSE IF value.py = "str" THEN Raised("ValueError")
             ELSE Raised("TypeError")
        ELSE IF base_type = << "boolean" >>
        THEN IF value.py = "bool" THEN Returned(value)
             ELSE LET lower(word) ==
                          [ i \in 1..Len(word) |->
                              CASE word[i] = "True" -> "true"
                                [] word[i] = "False" -> "false"
                                [] word[i] = "YES" -> "yes"
                                [] OTHER -> word[i] ]
                  IN  Returned(PyBool(lower(py_str(value).text)
                                        \in { << "true" >>, << "1" >>, << "yes" >> }))
        ELSE IF base_type = << "uuid" >>
        THEN IF value.py = "UUID" THEN Returned(value)
             ELSE IF falsy(value) THEN Returned(PyUuid(fresh))
             ELSE IF py_str(value).text \in { << u >> : u \in UuidTexts }
             THEN Returned(PyUuid(py_str(value).text[1]))
             ELSE Raised("ValueError")
        ELSE IF base_type = << "timeuuid" >>
        THEN IF value.py = "UUID" THEN Returned(value)
             ELSE IF py_str(value).text \in { << u >> : u \in UuidTexts }
             THEN Returned(PyUuid(py_str(value).text[1]))
             ELSE Raised("ValueError")
        ELSE IF base_type = << "list" >>
        THEN IF value.py = "list" THEN Returned(value)
             ELSE IF value.py # "str" THEN Raised("TypeError")
             ELSE json_loads(value.text)
        ELSE IF base_type = << "set" >>
        THEN IF value.py = "set" THEN Returned(value)
             ELSE IF value.py = "list" THEN Returned(PyOf("set", set_of(value.text, fresh)))
             ELSE IF value.py # "str" THEN Raised("TypeError")
             ELSE IF json_loads(value.text).outcome # "returned" THEN json_loads(value.text)
             ELSE IF json_loads(value.text).value.py = "list"
             THEN Returned(PyOf("set", set_of(json_loads(value.text).value.text, fresh)))
             ELSE IF json_loads(value.text).value.py = "dict"
             THEN Returned(PyOf("set",
                      set_of([ i \in 1..(Len(json_loads(value.text).value.text) \div 2) |->
                                   json_loads(value.text).value.text[2 * i - 1] ], fresh)))
             ELSE Raised("TypeError")
        ELSE IF base_type = << "map" >>
        THEN IF value.py = "dict" THEN Returned(value)
             ELSE IF value.py # "str" THEN Raised("TypeError")
             ELSE json_loads(value.text)
        \* the base types whose branch of convert_value or format_value_for_display parses
        \* or formats floats, decimals, booleans, temporal values, JSON or hex
        ELSE IF base_type \in
                { << b >> : b \in { "float", "double", "decimal", "timestamp", "date", "time",
                                    "blob" } }
        THEN Raised("not modelled")
        ELSE Returned(py_str(value))

\* format_value_for_display(value, cql_type)
format_value_for_display(value, text) ==
    LET base_type == parse_cql_type(text).base_type
    IN  IF value = PyNone THEN Returned(PyStr(<< >>))
        ELSE IF base_type \in { << "list" >>, << "set" >>, << "map" >> }
        THEN Returned(PyStr(json_dumps(value)))
        ELSE Returned(py_str(value))

\* the longest numeric text the conversions are given
MaxDigits == 3

\* the values the conversions are given: numeric texts of the digits 1, 2 and 9 with
\* or without a sign, other texts, None, ints and UUIDs
ConvertValues ==
    LET plain == UNION { [ 1..k -> { "1", "2", "9" } ] : k \in 1..MaxDigits }
    IN
    { PyStr(t) : t \in plain \cup { << "-" >> \o t : t \in plain } }
    \cup { PyStr(<< >>), PyStr(<< "abc" >>), PyNone, PyInt(0), PyInt(7), PyInt(200) }
    \cup { PyBool(TRUE), PyBool(FALSE), PyStr(<< "True" >>), PyStr(<< "False" >>),
           PyStr(<< "YES" >>) }
    \cup { PyStr(<< "[", "]" >>), PyStr(<< "[", "1", ", ", "2", "]" >>),
           PyStr(<< "[", "2", ", ", "1", ", ", "2", "]" >>), PyStr(<< "[", "1" >>),
           PyStr(<< "{", "\"a\"", ": ", "1", ", ", "\"b\"", ": ", "2", "}" >>),
           PyOf("list", << "2", "1", "2" >>), PyOf("set", << "2", "1" >>),
           PyOf("dict", << "\"a\"", "1" >>) }
    \cup { PyStr(<< u >>) : u \in UuidTexts }
    \cup { PyUuid(u) : u \in UuidTexts }

\* convert_value is applied
ConvertValue ==
    /\ call.fn = "convert_value"
    /\ ret = NoReturn
    /\ \E fresh \in FreshUuids : ret' = convert_value(call.value, call.cql_type, fresh)
    /\ UNCHANGED << call, gridVars, parseVars, crudVars, appVars >>

\* format_value_for_display is applied
FormatValue ==
    /\ call.fn = "format_value_for_display"
    /\ ret = NoReturn
    /\ ret' = format_value_for_display(call.value, call.cql_type)
    /\ UNCHANGED << call, gridVars, parseVars, crudVars, appVars >>

\* get_type_info is applied
GetTypeInfo ==
    /\ call.fn = "get_type_info"
    /\ ret = NoReturn
    /\ ret' = [ outcome |-> "returned", value |-> get_type_info(call.cql_type) ]
    /\ UNCHANGED << call, gridVars, parseVars, crudVars, appVars >>

-----------------------------------------------------------------------------
(* The CQL editor.  A statement is written from its clauses, in the order   *)
(* the grammar puts them; a word, a number, a blank and a quote are tokens. *)

\* the LIMIT clause as the user may write it, and as the editor writes it
limit_clause(how) ==
    IF how = "upper" THEN << " ", "LIMIT", " ", "50" >>
    ELSE IF how = "lower" THEN << " ", "limit", " ", " ", "50" >>
    ELSE IF how = "cap" THEN << " ", "LIMIT", " ", "10" >>
    ELSE << >>

\* the text of the statement typed into the editor
statement_text(parts) ==
    << "SELECT", " ", "*", " ", "FROM", " ", "t" >>
    \o ( IF parts.where = "plain"
         THEN << " ", "WHERE", " ", "c", " ", "=", " ", "1" >>
         ELSE IF parts.where = "literal"
         THEN << " ", "WHERE", " ", "c", " ", "=", " ", "'", "LIMIT", " ", "5", "'" >>
         ELSE << >> )
    \o ( IF parts.per_partition
         THEN << " ", "PER", " ", "PARTITION", " ", "LIMIT", " ", "2" >>
         ELSE << >> )
    \o limit_clause(parts.limit)
    \o ( IF parts.allow THEN << " ", "ALLOW", " ", "FILTERING" >> ELSE << >> )

\* \s+ : the blanks that follow position i
RECURSIVE blanks_after(_, _)
blanks_after(text, i) ==
    IF i + 1 <= Len(text) /\ text[i + 1] = " " THEN 1 + blanks_after(text, i + 1) ELSE 0

\* \bLIMIT\s+(\d+) matches at position i
limit_at(text, i) ==
    /\ text[i] \in { "LIMIT", "limit", "Limit" }                 \* re.IGNORECASE
    /\ blanks_after(text, i) >= 1
    /\ i + blanks_after(text, i) + 1 <= Len(text)
    /\ text[i + blanks_after(text, i) + 1] \in { "1", "2", "5", "10", "50" }    \* \d+

\* re.search(r'\bLIMIT\s+(\d+)', text, re.IGNORECASE): the first match, 0 for none
limit_search(text) ==
    IF \E i \in 1..Len(text) : limit_at(text, i)
    THEN CHOOSE i \in 1..Len(text) :
             limit_at(text, i) /\ \A j \in 1..(i - 1) : ~limit_at(text, j)
    ELSE 0

\* re.sub(r'\bLIMIT\s+\d+', 'LIMIT 10', text, flags=re.IGNORECASE): every match
RECURSIVE limit_sub(_)
limit_sub(text) ==
    IF text = << >> THEN << >>
    ELSE IF limit_at(text, 1)
         THEN << "LIMIT", " ", "10" >>
              \o limit_sub(SubSeq(text, blanks_after(text, 1) + 3, Len(text)))
         ELSE << Head(text) >> \o limit_sub(Tail(text))

\* "Execute" of the editor: the statement executed and the warning shown
cql_editor(text, extended_mode) ==
    IF extended_mode /\ limit_search(text) # 0
    THEN [ outcome |-> "executed",
           query |-> limit_sub(text),
           warning |-> << "Extended mode overrides LIMIT ",
                          text[limit_search(text) + blanks_after(text, limit_search(text)) + 1],
                          " with LIMIT 10." >> ]
    ELSE IF extended_mode
    THEN [ outcome |-> "executed", query |-> text \o << " ", "LIMIT", " ", "10" >>,
           warning |-> << >> ]
    ELSE [ outcome |-> "executed", query |-> text, warning |-> << >> ]

\* "Execute" is pressed
ExecuteCql ==
    /\ call.fn = "cql_editor"
    /\ ret = NoReturn
    /\ ret' = cql_editor(statement_text(call), call.extended_mode)
    /\ UNCHANGED << call, gridVars, parseVars, crudVars, appVars >>

-----------------------------------------------------------------------------
(* TableSchema's derived orderings *)

\* [c for c in columns if c.is_partition_key], and the like: the columns that
\* have the role, in the order of columns
RECURSIVE columns_with(_, _)
columns_with(columns, role) ==
    IF columns = << >> THEN << >>
    ELSE IF \/ role = "partition" /\ Head(columns).is_partition_key
            \/ role = "clustering" /\ Head(columns).is_clustering_key
            \/ role = "regular" /\ ~Head(columns).is_partition_key
                                /\ ~Head(columns).is_clustering_key
         THEN << Head(columns) >> \o columns_with(Tail(columns), role)
         ELSE columns_with(Tail(columns), role)

\* one step of a stable sort: c goes after the entries whose position is not larger
RECURSIVE insert_by_position(_, _)
insert_by_position(sorted, c) ==
    IF sorted = << >> THEN << c >>
    ELSE IF Head(sorted).position <= c.position
         THEN << Head(sorted) >> \o insert_by_position(Tail(sorted), c)
         ELSE << c >> \o sorted

\* sorted(columns, key=lambda c: c.position), which is stable
RECURSIVE sorted_by_position(_)
sorted_by_position(columns) ==
    IF columns = << >> THEN << >>
    ELSE insert_by_position(
             sorted_by_position(SubSeq(columns, 1, Len(columns) - 1)),
             columns[Len(columns)])

\* the partition key columns as the catalogue listed them
partition_keys_unsorted(sch) == columns_with(sch.columns, "partition")

\* TableSchema.partition_keys
partition_keys(sch) == sorted_by_position(columns_with(sch.columns, "partition"))

\* TableSchema.clustering_keys
clustering_keys(sch) == sorted_by_position(columns_with(sch.columns, "clustering"))

\* the key columns as the catalogue listed them
primary_key_columns_unsorted(sch) ==
    columns_with(sch.columns, "partition") \o columns_with(sch.columns, "clustering")

\* TableSchema.primary_key_columns
primary_key_columns(sch) == partition_keys(sch) \o clustering_keys(sch)

\* a regular_columns that returns every column
regular_columns_all(sch) == sch.columns

\* TableSchema.regular_columns
regular_columns(sch) == columns_with(sch.columns, "regular")

\* TableSchema.all_columns_sorted
all_columns_sorted(sch) == primary_key_columns(sch) \o regular_columns(sch)

-----------------------------------------------------------------------------
(* Delete.  A row is a dict, column name -> value. *)

\* Python None as a value
NoneValue == "None"

\* row.get(name)
row_get(r, name) == IF name \in DOMAIN r THEN r[name] ELSE NoneValue

NoOp ==
    [ kind |-> "none", outcome |-> "none", query |-> << >>, params |-> << >>,
      executed |-> FALSE ]

\* _delete_record: the statement, its values, and the execute call
delete_record(sch, r) ==
    [ kind |-> "delete",
      outcome |-> "executed",
      query |-> << "DELETE FROM ", sch.keyspace, ".", sch.table_name, " WHERE " >>
                \o Join([ i \in 1..Len(primary_key_columns(sch)) |->
                              << primary_key_columns(sch)[i].name, " = %s" >> ],
                        << " AND " >>),
      params |-> [ i \in 1..Len(primary_key_columns(sch)) |->
                       row_get(r, primary_key_columns(sch)[i].name) ],
      executed |-> TRUE ]

\* "Yes, Delete" on the row
DeleteRecord ==
    /\ op.kind = "none"
    /\ op' = delete_record(schema, row)
    /\ UNCHANGED << schema, row, gridVars, parseVars, callVars, appVars >>

\* the tables deletes are checked on: partition keys a, b at positions 0, 1, a
\* descending clustering key c at position 0 and a regular column d, listed by the
\* catalogue in any order
KeyedCatalogRows ==
    { CatalogRow("a", "text", "partition_key", 0, "none"),
      CatalogRow("b", "text", "partition_key", 1, "none"),
      CatalogRow("c", "text", "clustering", 0, "desc"),
      CatalogRow("d", "text", "regular", -1, "none") }

-----------------------------------------------------------------------------
(* Insert: the Streamlit form of app.py and the record form of dynamic_form.py *)

\* a form that keeps the fields left empty
form_data_keeps_empty(columns, input) ==
    [ i \in 1..Len(columns) |-> << columns[i].name, input[columns[i].name] >> ]

\* _render_insert_form: {name: text} for the fields that are not empty, in
\* schema.columns order
RECURSIVE form_data(_, _)
form_data(columns, input) ==
    IF columns = << >> THEN << >>
    ELSE IF input[Head(columns).name] # ""
         THEN << << Head(columns).name, input[Head(columns).name] >> >>
                  \o form_data(Tail(columns), input)
         ELSE form_data(Tail(columns), input)

\* _insert_record: the statement, its values, and the execute call
insert_record(sch, data) ==
    [ kind |-> "insert",
      outcome |-> "executed",
      query |-> << "INSERT INTO ", sch.keyspace, ".", sch.table_name, " (" >>
                \o Join([ i \in 1..Len(data) |-> << data[i][1] >> ], << ", " >>)
                \o << ") VALUES (" >>
                \o Join([ i \in 1..Len(data) |-> << "%s" >> ], << ", " >>)
                \o << ")" >>,
      params |-> [ i \in 1..Len(data) |-> data[i][2] ],
      executed |-> TRUE ]

\* "Insert" of the Streamlit form: nothing happens when every field is empty
submit_insert_form(sch, input) ==
    IF form_data(sch.columns, input) # << >>
    THEN insert_record(sch, form_data(sch.columns, input))
    ELSE [ NoOp EXCEPT !.kind = "insert", !.outcome = "nothing" ]

\* DynamicFormField.get_value: the widget of int is a spin box, which always holds
\* a number
get_value(col, input) ==
    IF col.cql_type = "int"
    THEN IF input[col.name] = "7" THEN "7" ELSE "0"
    ELSE input[col.name]

\* DynamicRecordForm._validate: the first key field left empty, unless it is a uuid
RECURSIVE validate(_, _)
validate(keys, input) ==
    IF keys = << >> THEN TRUE
    ELSE IF get_value(Head(keys), input) = "" /\ Head(keys).cql_type # "uuid"
         THEN FALSE
         ELSE validate(Tail(keys), input)

\* the fields of the record form: the key columns, then the regular ones
form_fields(sch) == primary_key_columns(sch) \o regular_columns(sch)

\* _on_submit: the record of the fields that are not empty
RECURSIVE collect_record(_, _)
collect_record(fields, input) ==
    IF fields = << >> THEN << >>
    ELSE IF get_value(Head(fields), input) # ""
         THEN << << Head(fields).name, get_value(Head(fields), input) >> >>
                  \o collect_record(Tail(fields), input)
         ELSE collect_record(Tail(fields), input)

\* _on_submit: whether every collected value converts
RECURSIVE converts(_, _)
converts(fields, input) ==
    IF fields = << >> THEN TRUE
    ELSE /\ \/ get_value(Head(fields), input) = ""
            \* convert_value on the types the forms are checked on returns
            \/ LET value == get_value(Head(fields), input)
                   type == Head(fields).cql_type
               IN  IF type = "int" THEN value \in { "0", "7" }
                   ELSE IF type \in { "uuid", "timeuuid" } THEN value = "u"
                   ELSE TRUE
         /\ converts(Tail(fields), input)

\* DynamicRecordForm._on_submit: a warning, or the record emitted by submitted
on_submit(sch, input) ==
    IF ~validate(primary_key_columns(sch), input)
    THEN [ NoOp EXCEPT !.kind = "submit", !.outcome = "Validation Error" ]
    ELSE IF ~converts(form_fields(sch), input)
    THEN [ NoOp EXCEPT !.kind = "submit", !.outcome = "Conversion Error" ]
    ELSE [ NoOp EXCEPT !.kind = "submit", !.outcome = "submitted",
                       !.params = collect_record(form_fields(sch), input) ]

\* "Insert" on the Streamlit form
SubmitInsertForm ==
    /\ op.kind = "none"
    /\ op' = submit_insert_form(schema, row)
    /\ UNCHANGED << schema, row, gridVars, parseVars, callVars, appVars >>

\* "Insert Record" on the record form
SubmitRecordForm ==
    /\ op.kind = "none"
    /\ op' = on_submit(schema, row)
    /\ UNCHANGED << schema, row, gridVars, parseVars, callVars, appVars >>

-----------------------------------------------------------------------------
(* The schema inspector applied to the rows a catalogue query returned *)

\* the most rows a catalogue query returns
MaxCatalogRows == 3

\* the sequences of at most MaxCatalogRows different members of S
RowsOf(S) ==
    UNION { { q \in [ 1..k -> S ] : \A i \in 1..k, j \in 1..k : q[i] = q[j] => i = j } :
                k \in 0..MaxCatalogRows }

\* get_keyspaces is applied
GetKeyspaces ==
    /\ call.fn = "get_keyspaces"
    /\ ret = NoReturn
    /\ ret' = [ outcome |-> "returned", value |-> list_keyspaces(call.names) ]
    /\ UNCHANGED << call, gridVars, parseVars, crudVars, appVars >>

\* get_tables is applied
GetTables ==
    /\ call.fn = "get_tables"
    /\ ret = NoReturn
    /\ ret' = [ outcome |-> "returned", value |-> list_tables(call.names) ]
    /\ UNCHANGED << call, gridVars, parseVars, crudVars, appVars >>

\* get_table_schema is applied
GetTableSchema ==
    /\ call.fn = "get_table_schema"
    /\ ret = NoReturn
    /\ ret' = [ outcome |-> "returned", value |-> table_schema("ks1", "t", call.columns) ]
    /\ UNCHANGED << call, gridVars, parseVars, crudVars, appVars >>

-----------------------------------------------------------------------------
(* ConfigManager: the connection profiles and the column metadata.  A name  *)
(* is a token sequence, a dot being a token of its own.  A dict entry is    *)
(* present or not, and its value is a sequence: << "True" >> for a flag,    *)
(* the keys of a map schema for "map_schema".                               *)

\* dict.get(key, default) finds nothing
Absent == [ present |-> FALSE, value |-> << >> ]

\* f"{keyspace}.{table}"
table_key(keyspace, table) == keyspace \o << "." >> \o table

\* the keyspace and table names metadata is kept for, and the keys they make
MetaKeyspaces == { << "a" >>, << "a", ".", "b" >> }
MetaTables == { << "c" >>, << "b", ".", "c" >> }
MetaColumns == { "m", "n" }
MetaKeys == { "hide", "map_schema" }

\* AppSettings(): no connection, no metadata
AppSettings ==
    [ connections |-> << >>,
      table_metadata |->
          [ tk \in { table_key(k, t) : k \in MetaKeyspaces, t \in MetaTables } |->
              [ c \in MetaColumns |-> [ key \in MetaKeys |-> Absent ] ] ] ]

\* ConfigManager.get_column_metadata
get_column_metadata(keyspace, table, column) ==
    settings.table_metadata[table_key(keyspace, table)][column]

\* ConfigManager.set_column_metadata: the settings it leaves
set_column_metadata(keyspace, table, column, key, value) ==
    [ settings EXCEPT !.table_metadata[table_key(keyspace, table)][column][key] =
                          [ present |-> TRUE, value |-> value ] ]

\* ConfigManager.get_connection: the first profile of that name, None for none
get_connection(name) ==
    IF \E i \in 1..Len(settings.connections) : settings.connections[i].name = name
    THEN settings.connections[
             CHOOSE i \in 1..Len(settings.connections) :
                 /\ settings.connections[i].name = name
                 /\ \A j \in 1..(i - 1) : settings.connections[j].name # name ]
    ELSE [ name |-> "None", port |-> 0 ]

\* [c for c in self._settings.connections if c.name != name]
connections_but(name) == SelectSeq(settings.connections, LAMBDA c : c.name # name)

\* an add_connection that appends without removing
add_connection_appends(connection) ==
    [ settings EXCEPT !.connections = Append(settings.connections, connection) ]

\* ConfigManager.add_connection: the settings it leaves
add_connection(connection) ==
    [ settings EXCEPT !.connections = Append(connections_but(connection.name), connection) ]

\* ConfigManager.delete_connection: the settings it leaves
delete_connection(name) == [ settings EXCEPT !.connections = connections_but(name) ]

\* "Save Connection"
AddConnection ==
    /\ \E c \in [ name : { "p", "q", "r" }, port : { 9042, 9142 } ] :
           /\ settings' = add_connection(c)
           /\ call' = [ fn |-> "add_connection", connection |-> c,
                        before |-> settings.connections ]
    /\ UNCHANGED << ret, manager, delete_target, map_editor, gridVars, parseVars,
                    crudVars >>

\* a profile is deleted
DeleteConnection ==
    /\ \E n \in { "p", "q", "r" } :
           /\ settings' = delete_connection(n)
           /\ call' = [ fn |-> "delete_connection",
                        connection |-> [ name |-> n, port |-> 0 ],
                        before |-> settings.connections ]
    /\ UNCHANGED << ret, manager, delete_target, map_editor, gridVars, parseVars,
                    crudVars >>

\* a metadata value of a column is set
SetColumnMetadata ==
    /\ \E k \in MetaKeyspaces, t \in MetaTables, c \in MetaColumns, key \in MetaKeys :
           LET value == IF key = "hide" THEN << "True" >> ELSE << "k1" >>
           IN  /\ settings' = set_column_metadata(k, t, c, key, value)
               /\ call' = [ fn |-> "set_column_metadata", keyspace |-> k, table |-> t,
                            column |-> c, key |-> key, value |-> value ]
    /\ UNCHANGED << ret, manager, delete_target, map_editor, gridVars, parseVars,
                    crudVars >>

-----------------------------------------------------------------------------
(* CassandraConnectionManager.  Clusters and sessions are numbered as they  *)
(* are made, 0 standing for None; live holds the sessions not shut down.    *)

\* CassandraConnectionManager(): nothing connected
NoConnection ==
    [ cluster |-> 0, session |-> 0, current_profile |-> "None", current_keyspace |-> "None",
      live |-> { }, made |-> 0 ]

\* CassandraConnectionManager.is_connected
is_connected == manager.session # 0 /\ manager.session \in manager.live

\* CassandraConnectionManager.disconnect: the manager it leaves
connection_disconnect ==
    [ manager EXCEPT !.live = manager.live \ { manager.session },
                     !.session = 0,
                     !.cluster = 0,
                     !.current_profile = "None",
                     !.current_keyspace = "None" ]

\* CassandraConnectionManager.connect(profile): the manager it leaves and the result
\* it returns; reached says how far the driver lets it go: "no_cluster" (Cluster()
\* raises), "no_host" (cluster.connect() raises NoHostAvailable), "no_keyspace"
\* (session.set_keyspace raises), "all"
connection_connect(profile, reached) ==
    LET closed == connection_disconnect
        clustered == [ closed EXCEPT !.cluster = closed.made + 1 ]
        opened == [ clustered EXCEPT !.session = closed.made + 1,
                                     !.made = closed.made + 1,
                                     !.live = closed.live \cup { closed.made + 1 },
                                     !.current_profile = profile.name ]
    IN  IF reached = "no_cluster" THEN [ manager |-> closed, success |-> FALSE ]
        ELSE IF reached = "no_host" THEN [ manager |-> clustered, success |-> FALSE ]
        ELSE IF profile.default_keyspace = "" THEN [ manager |-> opened, success |-> TRUE ]
        ELSE IF reached = "no_keyspace" THEN [ manager |-> opened, success |-> FALSE ]
        ELSE [ manager |-> [ opened EXCEPT !.current_keyspace = profile.default_keyspace ],
               success |-> TRUE ]

\* connect is called with a profile
ConnectProfile ==
    /\ manager.made < MaxSessions
    /\ \E profile \in [ name : { "p", "q", "r" }, default_keyspace : { "", "ks1", "ks2" } ],
          reached \in { "no_cluster", "no_host", "no_keyspace", "all" } :
           /\ manager' = connection_connect(profile, reached).manager
           /\ call' = [ fn |-> "connect", profile |-> profile, reached |-> reached ]
           /\ ret' = [ outcome |-> "returned",
                       success |-> connection_connect(profile, reached).success ]
    /\ UNCHANGED << settings, delete_target, map_editor, gridVars, parseVars,
                    crudVars >>

\* disconnect is called
DisconnectManager ==
    /\ manager' = connection_disconnect
    /\ call' = [ fn |-> "disconnect" ]
    /\ ret' = [ outcome |-> "returned", success |-> TRUE ]
    /\ UNCHANGED << settings, delete_target, map_editor, gridVars, parseVars,
                    crudVars >>

-----------------------------------------------------------------------------
(* The delete confirmation (app.py).  delete_target is the session-state key *)
(* of that name (pending = the key is present) together with the number of  *)
(* DELETE statements the application has executed.                          *)

\* DELETE statements followed in all
MaxDeletes == 2

NoTarget == [ pending |-> FALSE, schema |-> NoSchema, row |-> << >>, executed |-> 0 ]

\* _confirm_delete: the grid's schema and the row of the pressed button
confirm_delete(target, sch, r) ==
    [ target EXCEPT !.pending = TRUE, !.schema = sch, !.row = r ]

\* a "Yes, Delete" that leaves the key in place
yes_delete_keeps_target(target, conn) ==
    [ target EXCEPT !.executed = IF conn THEN @ + 1 ELSE @ ]

\* "Yes, Delete": _delete_record(schema, row), then del st.session_state.delete_target
yes_delete(target, conn) ==
    [ NoTarget EXCEPT !.executed = target.executed + IF conn THEN 1 ELSE 0 ]

\* "Cancel": del st.session_state.delete_target
cancel_delete(target) == [ NoTarget EXCEPT !.executed = target.executed ]

\* the last script run reached _render_delete_confirmation
dialog_rendered(rs) == rs.outcome \notin { "error", "TypeError" }

\* the delete button of a row of the grid
ConfirmDelete ==
    \E v \in { "x", "y" }, u1 \in UndefinedOutcomes, u2 \in UndefinedOutcomes :
        /\ connected
        /\ rows.outcome = "page"
        /\ LET r1 == ClickRun(u1)
               shown == r1.rows.outcome = "page"
               sch == r1.ss.current_table_schema
           IN  /\ Leave(IF shown
                        THEN script_run(r1.ss, TRUE, selected_keyspace, selected_table,
                                        filter_text, page_size, u2)
                        ELSE r1,
                        TRUE, selected_keyspace, selected_table, filter_text, page_size,
                        IF shown THEN "confirm_delete" ELSE "rerun")
               /\ delete_target' =
                      IF shown
                      THEN confirm_delete(delete_target, sch,
                                          [ c \in ColumnNames(sch) |-> v ])
                      ELSE delete_target
        /\ before_next' = NoSnapshot
        /\ UNCHANGED << crudVars, settings, manager, map_editor >>

\* "Yes, Delete" of the dialog; execute raises RuntimeError without a session
YesDelete ==
    \E u1 \in UndefinedOutcomes, u2 \in UndefinedOutcomes :
        /\ delete_target.pending
        /\ dialog_rendered(rows)
        /\ delete_target.executed < MaxDeletes
        /\ LET r1 == script_run(SessionState, connected, selected_keyspace,
                                selected_table, filter_text, page_size, u1)
               reached == dialog_rendered(r1.rows)
           IN  /\ Leave(IF reached
                        THEN script_run(r1.ss, connected, selected_keyspace,
                                        selected_table, filter_text, page_size, u2)
                        ELSE r1,
                        connected, selected_keyspace, selected_table, filter_text,
                        page_size, IF reached THEN "yes_delete" ELSE "rerun")
               /\ delete_target' = IF reached THEN yes_delete(delete_target, connected)
                                   ELSE delete_target
               /\ schema' = IF reached THEN delete_target.schema ELSE schema
               /\ row' = IF reached THEN delete_target.row ELSE row
               /\ op' = IF ~reached THEN op
                        ELSE IF connected
                        THEN delete_record(delete_target.schema, delete_target.row)
                        ELSE [ delete_record(delete_target.schema, delete_target.row)
                                 EXCEPT !.outcome = "RuntimeError", !.executed = FALSE ]
        /\ before_next' = NoSnapshot
        /\ UNCHANGED << settings, manager, map_editor >>

\* "Cancel" of the dialog
CancelDelete ==
    \E u1 \in UndefinedOutcomes, u2 \in UndefinedOutcomes :
        /\ delete_target.pending
        /\ dialog_rendered(rows)
        /\ LET r1 == script_run(SessionState, connected, selected_keyspace,
                                selected_table, filter_text, page_size, u1)
               reached == dialog_rendered(r1.rows)
           IN  /\ Leave(IF reached
                        THEN script_run(r1.ss, connected, selected_keyspace,
                                        selected_table, filter_text, page_size, u2)
                        ELSE r1,
                        connected, selected_keyspace, selected_table, filter_text,
                        page_size, IF reached THEN "cancel_delete" ELSE "rerun")
               /\ delete_target' = IF reached THEN cancel_delete(delete_target)
                                   ELSE delete_target
        /\ before_next' = NoSnapshot
        /\ UNCHANGED << crudVars, settings, manager, map_editor >>

-----------------------------------------------------------------------------
(* The map-schema editor (app.py).  map_editor holds the two session-state  *)
(* keys: map_editor_target (open = the key is present) and                  *)
(* map_schema_working_copy (copied = the key is present).  A schema is a    *)
(* sequence of [key, type] entries.                                         *)

\* entries a map schema holds at most
MaxKeys == 2

\* no edit is open
NoEditor ==
    [ open |-> FALSE, keyspace |-> << >>, table |-> << >>, column |-> "",
      current_schema |-> << >>, copied |-> FALSE, working_copy |-> << >> ]

\* meta.get("map_schema", [])
stored_map_schema(keyspace, table, column) ==
    IF get_column_metadata(keyspace, table, column)["map_schema"].present
    THEN get_column_metadata(keyspace, table, column)["map_schema"].value
    ELSE << >>

\* "Edit Schema" of a column, and the render of the editor in the rerun, which
\* makes the working copy when the session state holds none
edit_schema(editor, keyspace, table, column) ==
    [ open |-> TRUE, keyspace |-> keyspace, table |-> table, column |-> column,
      current_schema |-> stored_map_schema(keyspace, table, column),
      copied |-> TRUE,
      working_copy |-> IF editor.copied THEN editor.working_copy
                       ELSE stored_map_schema(keyspace, table, column) ]

\* working_copy.pop(i)
remove_key(working_copy, i) ==
    SubSeq(working_copy, 1, i - 1) \o SubSeq(working_copy, i + 1, Len(working_copy))

\* "Add Key": an empty name and a name the list has are refused
add_key(working_copy, key, type) ==
    IF key = "" \/ \E i \in 1..Len(working_copy) : working_copy[i].key = key
    THEN working_copy
    ELSE Append(working_copy, [ key |-> key, type |-> type ])

\* "Edit Schema" in the table information; call.own follows what the Add and
\* Remove steps taken on this target make of the column's own schema
EditSchema ==
    \E c \in MetaColumns :
        /\ map_editor' = edit_schema(map_editor, << "a" >>, << "c" >>, c)
        /\ call' = [ fn |-> "edit_schema", column |-> c,
                     own |-> stored_map_schema(<< "a" >>, << "c" >>, c) ]
        /\ UNCHANGED << ret, settings, manager, delete_target, gridVars, parseVars,
                        crudVars >>

\* "Remove" of entry i
RemoveKey ==
    \E i \in 1..Len(map_editor.working_copy) :
        /\ map_editor.open
        /\ map_editor' = [ map_editor EXCEPT
                             !.working_copy = remove_key(map_editor.working_copy, i) ]
        /\ call' = [ fn |-> "remove_key", column |-> map_editor.column,
                     own |-> SelectSeq(call.own,
                                 LAMBDA e : e.key # map_editor.working_copy[i].key) ]
        /\ UNCHANGED << ret, settings, manager, delete_target, gridVars, parseVars,
                        crudVars >>

\* "Add Key" of the form
AddKey ==
    \E key \in { "", "k1", "k2" } :
        /\ map_editor.open
        /\ Len(map_editor.working_copy) < MaxKeys
        /\ map_editor' = [ map_editor EXCEPT
                             !.working_copy = add_key(map_editor.working_copy, key,
                                                      "text") ]
        /\ call' = [ fn |-> "add_key", column |-> map_editor.column,
                     own |-> add_key(call.own, key, "text") ]
        /\ UNCHANGED << ret, settings, manager, delete_target, gridVars, parseVars,
                        crudVars >>

\* "Save Schema"
SaveSchema ==
    /\ map_editor.open
    /\ settings' = set_column_metadata(map_editor.keyspace, map_editor.table,
                                       map_editor.column, "map_schema",
                                       map_editor.working_copy)
    /\ map_editor' = NoEditor
    /\ call' = [ fn |-> "save_schema", column |-> map_editor.column, own |-> call.own ]
    /\ UNCHANGED << ret, manager, delete_target, gridVars, parseVars, crudVars >>

\* "Cancel" of the editor
CancelEdit ==
    /\ map_editor.open
    /\ map_editor' = NoEditor
    /\ call' = [ fn |-> "cancel_edit", column |-> map_editor.column, own |-> call.own ]
    /\ UNCHANGED << ret, settings, manager, delete_target, gridVars, parseVars,
                    crudVars >>

-----------------------------------------------------------------------------
(* Specifications *)

CrudIdle ==
    /\ schema = NoSchema
    /\ row = << >>
    /\ op = NoOp

CallIdle ==
    /\ call = [ fn |-> "none" ]
    /\ ret = NoReturn

AppIdle ==
    /\ settings = AppSettings
    /\ manager = NoConnection
    /\ delete_target = NoTarget
    /\ map_editor = NoEditor

Init == GridInit("session") /\ ParseIdle /\ CrudIdle /\ CallIdle /\ AppIdle

Next ==
    \/ Connect
    \/ Disconnect
    \/ SelectKeyspace
    \/ SelectTable
    \/ EditFilter
    \/ SelectPageSize
    \/ ClickNext
    \/ ClickPrevious

Spec == Init /\ [][Next]_vars

InitManager ==
    /\ GridInit("manager")
    /\ ParseIdle
    /\ CrudIdle
    /\ CallIdle
    /\ AppIdle

SpecManager ==
    /\ InitManager
    /\ [][ \/ Connect
          \/ Disconnect
          \/ SelectKeyspace
          \/ SelectTable
          \/ EditFilter
          \/ SelectPageSize ]_vars

SpecConfirm ==
    /\ Init
    /\ [][ \/ Connect
          \/ Disconnect
          \/ SelectKeyspace
          \/ SelectTable
          \/ ConfirmDelete
          \/ YesDelete
          \/ CancelDelete ]_vars

InitParse ==
    /\ GridInit("session")
    /\ AppIdle
    /\ CrudIdle
    /\ CallIdle
    /\ cql_type \in TypeTrees(MaxDepth)
    /\ parsed = NotParsed

SpecParse ==
    /\ InitParse
    /\ [][Parse]_vars

InitDelete ==
    /\ GridInit("session")
    /\ AppIdle
    /\ ParseIdle
    /\ CallIdle
    /\ schema \in
            { [ keyspace |-> "ks1", table_name |-> "t",
                columns |-> [ i \in 1..Len(q) |-> ColumnInfo(q[i]) ] ] :
                  q \in { o \in [ 1..Cardinality(KeyedCatalogRows) -> KeyedCatalogRows ] :
                               Range(o) = KeyedCatalogRows } }
    \* the rows a delete may be handed: any columns present, any values
    /\ row \in
            UNION { [ D -> { "x", "y", NoneValue } ] : D \in SUBSET { "a", "b", "c" } }
    /\ op = NoOp

SpecDelete ==
    /\ InitDelete
    /\ [][DeleteRecord]_vars

InitInsert ==
    /\ GridInit("session")
    /\ AppIdle
    /\ ParseIdle
    /\ CallIdle
    \* the tables inserts are checked on: partition key k, clustering key c, regular v
    /\ schema \in
            { [ keyspace |-> "ks1", table_name |-> "t",
                columns |-> << ColumnInfo(CatalogRow("v", "text", "regular", -1, "none")),
                               ColumnInfo(CatalogRow("c", tc, "clustering", 0, "asc")),
                               ColumnInfo(CatalogRow("k", tk, "partition_key", 0, "none")) >> ] :
                  tk \in { "uuid", "text", "int" }, tc \in { "text", "timeuuid" } }
    \* what the user leaves in each field: nothing, a number, the text of a UUID
    /\ row \in
            [ { "k", "c", "v" } -> { "", "7", "u" } ]
    /\ op = NoOp

SpecInsert ==
    /\ InitInsert
    /\ [][ \/ SubmitInsertForm
          \/ SubmitRecordForm ]_vars

InitConvert ==
    /\ GridInit("session")
    /\ AppIdle
    /\ ParseIdle
    /\ CrudIdle
    /\ call \in [ fn : { "convert_value", "format_value_for_display", "get_type_info" },
                  value : ConvertValues,
                  \* the type expressions the conversions are given: registry types, frozen wrappers,
                  \* and three whose base type the registry does not hold
                  cql_type :
                          { << "tinyint" >>, << "smallint" >>, << "int" >>, << "bigint" >>, << "varint" >>,
                            << "uuid" >>, << "timeuuid" >>, << "text" >>, << "counter" >>,
                            << "frozen", "<", "int", ">" >>, << "frozen", "<", "uuid", ">" >>,
                            << "boolean" >>, << "list", "<", "int", ">" >>, << "set", "<", "int", ">" >>,
                            << "map", "<", "text", ",", " ", "int", ">" >>,
                            << "geo_point" >>, << "address", "<", "text", ">" >>, << "foo", "<", "bar" >> } ]
    /\ call.fn = "get_type_info" => call.value = PyNone
    /\ call.value.py \in { "list", "set", "dict" } =>
           Head(call.cql_type) \in { "list", "set", "map" }
    /\ ret = NoReturn

SpecConvert ==
    /\ InitConvert
    /\ [][ \/ ConvertValue
          \/ FormatValue
          \/ GetTypeInfo ]_vars

InitEditor ==
    /\ GridInit("session")
    /\ AppIdle
    /\ ParseIdle
    /\ CrudIdle
    \* the statements the editor is given
    /\ call \in
            [ fn : { "cql_editor" },
              where : { "none", "plain", "literal" },
              per_partition : BOOLEAN,
              limit : { "none", "upper", "lower" },
              allow : BOOLEAN,
              extended_mode : BOOLEAN ]
    /\ ret = NoReturn

SpecEditor ==
    /\ InitEditor
    /\ [][ExecuteCql]_vars

InitCatalog ==
    /\ GridInit("session")
    /\ AppIdle
    /\ ParseIdle
    /\ CrudIdle
    \* the calls: the keyspace names a cluster may hold, the table names a keyspace may
    \* hold, and the rows of system_schema.columns a table may have, one of each kind
    /\ call \in
            [ fn : { "get_keyspaces" },
              names : RowsOf({ "app", "ks1", "zoo", "system", "system_auth", "system_schema",
                               "system_views", "system_foo" }),
              columns : { << >> } ]
            \cup [ fn : { "get_tables" },
                    names : RowsOf({ "users", "visits", "vanished", "a_table" }),
                    columns : { << >> } ]
            \cup [ fn : { "get_table_schema" },
                    names : { << >> },
                    columns : RowsOf({ CatalogRow("p", "int", "partition_key", 0, "none"),
                                       CatalogRow("q", "text", "clustering", 0, "desc"),
                                       CatalogRow("r", "text", "regular", -1, "none"),
                                       CatalogRow("s", "text", "static", -1, "none") }) ]
    /\ ret = NoReturn

SpecCatalog ==
    /\ InitCatalog
    /\ [][ \/ GetKeyspaces
          \/ GetTables
          \/ GetTableSchema ]_vars

SpecSettings ==
    /\ Init
    /\ [][ \/ AddConnection
          \/ DeleteConnection ]_vars

SpecMetadata == Init /\ [][SetColumnMetadata]_vars

SpecConnection ==
    /\ Init
    /\ [][ \/ ConnectProfile
          \/ DisconnectManager ]_vars

SpecMapEditor ==
    /\ Init
    /\ [][ \/ EditSchema
          \/ RemoveKey
          \/ AddKey
          \/ SaveSchema
          \/ CancelEdit ]_vars

-----------------------------------------------------------------------------
(* Claims on the paging pair *)

Executed == rows.outcome \in { "page", "error" }

FromThisStatement(ps) ==
    ps # None => (ps.query = rows.query /\ ps.params = rows.params)

C6_GridReadIsExecutedPaged ==
    (connected /\ current_table_schema # NoSchema) =>
        /\ rows.outcome = "page"
        /\ rows.page_size = page_size
        /\ rows.cursor = paging_state

-----------------------------------------------------------------------------
(* Claims on parse_cql_type *)


\* the parameters written between the outermost brackets of the expression
WrittenParams(tree) == [ i \in 1..Len(tree.params) |-> type_text(tree.params[i]) ]

\* C7: parse splits the text between the outermost brackets on top-level commas
\* only, so the parameter list holds exactly the parameters written there (two for
\* map<text, list<int>>), and each of them parses to its own base type and
\* parameters.
C7_ParamsAreThoseWritten ==
    parsed.done =>
        /\ parsed.base_type = << cql_type.base >>
        /\ parsed.params = WrittenParams(cql_type)
        /\ \A i \in 1..Len(cql_type.params) :
               /\ parse_cql_type(WrittenParams(cql_type)[i]).base_type
                      = << cql_type.params[i].base >>
               /\ parse_cql_type(WrittenParams(cql_type)[i]).params
                      = WrittenParams(cql_type.params[i])

-----------------------------------------------------------------------------
(* Claims on delete and insert *)

KeyNames(sch) ==
    { sch.columns[i].name : i \in { j \in 1..Len(sch.columns) :
          sch.columns[j].is_partition_key \/ sch.columns[j].is_clustering_key } }

ColumnNamed(sch, name) ==
    CHOOSE c \in Range(sch.columns) : c.name = name

\* C8: a delete of a row that lacks the value of a key column fails with
\* MissingPrimaryKey, builds no statement and executes nothing.
C8_DeleteNeedsEveryKey ==
    ( /\ op.kind = "delete"
      /\ \E k \in KeyNames(schema) : row_get(row, k) = NoneValue )
    => ( /\ op.outcome = "MissingPrimaryKey"
         /\ op.query = << >>
         /\ ~op.executed )

\* the columns a delete statement's predicate names, in the order it names them
PredicateColumns(query) == [ i \in 1..((Len(query) - 4) \div 3) |-> query[3 * i + 3] ]

\* names lists every key column once, partition keys before clustering keys, each
\* group by ascending position
IsKeyOrder(names, sch) ==
    /\ Range(names) = KeyNames(sch)
    /\ Len(names) = Cardinality(KeyNames(sch))
    /\ \A i \in 1..Len(names), j \in 1..Len(names) :
           i < j =>
               LET ci == ColumnNamed(sch, names[i])
                   cj == ColumnNamed(sch, names[j])
               IN  \/ ci.is_partition_key /\ cj.is_clustering_key
                   \/ /\ ci.is_partition_key = cj.is_partition_key
                      /\ ci.position < cj.position

\* C9: the predicate of a delete statement is the conjunction of one equality per
\* key column, partition keys by position and then clustering keys by position,
\* and the values bound are the row's values for those columns in that order.
C9_DeletePredicateIsTheKey ==
    op.kind = "delete" =>
        LET names == PredicateColumns(op.query)
        IN  /\ IsKeyOrder(names, schema)
            /\ op.query = << "DELETE FROM ", schema.keyspace, ".", schema.table_name,
                             " WHERE " >>
                          \o Join([ i \in 1..Len(names) |-> << names[i], " = %s" >> ],
                                  << " AND " >>)
            /\ op.params = [ i \in 1..Len(names) |-> row_get(row, names[i]) ]

\* a delete on a table whose catalogue lists c, then b, then a
C9_Witness ==
    /\ op.kind = "delete"
    /\ schema.columns[1].name = "c"
    /\ schema.columns[2].name = "b"
    /\ schema.columns[3].name = "d"
    /\ { "a", "b", "c" } \subseteq DOMAIN row
    /\ row["a"] = "x" /\ row["b"] = "y" /\ row["c"] = "x"
    /\ op.params = << "x", "y", "x" >>

\* the key columns that may not be left out of an insert
RequiredKeys(sch) == { k \in KeyNames(sch) : ColumnNamed(sch, k).cql_type # "uuid" }

\* the columns an insert's values name
Supplied(values) == { values[i][1] : i \in 1..Len(values) }

\* C10: on every path to an insert, when a key column that is not a uuid is absent
\* from the values, the insert fails with MissingPrimaryKey and no statement is
\* built or executed.
C10_InsertNeedsEveryKey ==
    /\ ( /\ op.kind = "insert"
         /\ \E k \in RequiredKeys(schema) : row[k] = "" )
       => ( /\ op.outcome = "MissingPrimaryKey"
            /\ op.query = << >>
            /\ ~op.executed )
    /\ ( op.kind = "submit" /\ op.outcome = "submitted" )
       => RequiredKeys(schema) \subseteq Supplied(op.params)

-----------------------------------------------------------------------------
(* Claims on the conversions *)

Applied(fn) == call.fn = fn /\ ret # NoReturn

\* C11: convert_value on the empty input of a uuid column returns a newly generated
\* UUID; it neither fails nor returns nothing.
C11_EmptyUuidIsGenerated ==
    ( /\ Applied("convert_value")
      /\ call.cql_type = << "uuid" >>
      /\ call.value = PyStr(<< >>) )
    => ( /\ ret.outcome = "returned"
         /\ ret.value.py = "UUID"
         /\ ret.value.text \in { << u >> : u \in FreshUuids } )

\* r is the string form of the value v
IsStringFormOf(r, v) ==
    /\ r.py = "str"
    /\ v.py = "str" => r = v
    /\ v.py = "UUID" => r.text = v.text
    /\ v.py = "int" =>
           /\ is_int_text(r.text)
           /\ Head(r.text) # "+"
           /\ int_of(r.text) = v.num

\* C19: for a type expression whose base type the registry does not hold, nothing
\* raises: get_type_info returns the str/lineedit descriptor, convert_value of a
\* non-empty value returns its string form, and so does format_value_for_display.
C19_UnknownTypeFallsBack ==
    ( /\ ret # NoReturn
      /\ call.cql_type \in { << "geo_point" >>, << "address", "<", "text", ">" >>,
                             << "foo", "<", "bar" >> } )
    => /\ ret.outcome = "returned"
       /\ call.fn = "get_type_info" =>
              /\ ret.value.python_type = "str"
              /\ ret.value.widget = "lineedit"
              /\ ret.value.cql_type = call.cql_type
       /\ ( /\ call.fn \in { "convert_value", "format_value_for_display" }
            /\ call.value \notin { PyNone, PyStr(<< >>) } )
          => IsStringFormOf(ret.value, call.value)

\* the int 200 was converted for a column of the user-defined type address<text>
C19_Witness ==
    /\ Applied("convert_value")
    /\ call.cql_type = << "address", "<", "text", ">" >>
    /\ call.value = PyInt(200)
    /\ ret = Returned(PyStr(<< "2", "0", "0" >>))

InRange(n, base) == IntegerRanges[base].min <= n /\ n <= IntegerRanges[base].max

\* C20: convert_value of a numeric text for a fixed-width integer type fails when
\* the number lies outside the type's range, and never returns a number outside it.
C20_OverflowIsAFailure ==
    ( /\ Applied("convert_value")
      /\ Len(call.cql_type) = 1
      /\ call.cql_type[1] \in DOMAIN IntegerRanges
      /\ call.value.py = "str"
      /\ is_int_text(call.value.text) )
    => /\ ~InRange(int_of(call.value.text), call.cql_type[1]) => ret.outcome = "ValueError"
       /\ ret.outcome = "returned" => InRange(ret.value.num, call.cql_type[1])

-----------------------------------------------------------------------------
(* Claims on the statements *)

\* the columns an insert statement names, in the order it names them
InsertColumns(query) == [ i \in 1..((Len(query) - 5) \div 4) |-> query[4 + 2 * i] ]

ColumnIndex(sch, name) == CHOOSE i \in 1..Len(sch.columns) : sch.columns[i].name = name

\* the columns of the form the user filled
Filled(sch, input) == { c \in { col.name : col \in Range(sch.columns) } : input[c] # "" }

\* C12: an insert statement names exactly the columns whose input is not empty, in
\* the order the form holds them, with one placeholder and one bound value per
\* column; a column left empty is in no statement and in no submitted record.
C12_InsertNamesTheFilledColumns ==
    /\ op.kind = "insert" =>
           /\ op.executed <=> Filled(schema, row) # { }
           /\ op.executed =>
                  LET names == InsertColumns(op.query)
                  IN  /\ Range(names) = Filled(schema, row)
                      /\ Len(names) = Cardinality(Filled(schema, row))
                      /\ \A i \in 1..Len(names), j \in 1..Len(names) :
                             i < j => ColumnIndex(schema, names[i])
                                          < ColumnIndex(schema, names[j])
                      /\ op.query =
                             << "INSERT INTO ", schema.keyspace, ".", schema.table_name,
                                " (" >>
                             \o Join([ i \in 1..Len(names) |-> << names[i] >> ], << ", " >>)
                             \o << ") VALUES (" >>
                             \o Join([ i \in 1..Len(names) |-> << "%s" >> ], << ", " >>)
                             \o << ")" >>
                      /\ op.params = [ i \in 1..Len(names) |-> row[names[i]] ]
    /\ ( op.kind = "submit" /\ op.outcome = "submitted" ) =>
           \A c \in Supplied(op.params) :
               row[c] # "" \/ ColumnNamed(schema, c).cql_type = "int"

\* the form was submitted with v left empty and c and k filled
C12_Witness ==
    /\ op.kind = "insert"
    /\ row["v"] = "" /\ row["c"] = "u" /\ row["k"] = "7"
    /\ op.executed
    /\ op.params = << "u", "7" >>

\* the columns a select statement's predicates name, in the order it names them
SelectColumns(query) == [ i \in 1..((Len(query) - 5) \div 3) |-> query[3 * i + 3] ]

\* the columns of the grid whose filter box is not empty
Filtered == { c \in ColumnNames(current_table_schema) : filter_text[c] # "" }

\* C13: the select of a grid render with filters holds one equality predicate per
\* filter column, conjoined with AND, ends with ALLOW FILTERING and binds the k-th
\* parameter to the k-th filter's value; with no filter it is the bare SELECT, with
\* no WHERE, no ALLOW FILTERING and no parameter.
C13_SelectPredicatesAreTheFilters ==
    rows.outcome # "none" =>
        LET bare == << "SELECT * FROM ", current_table_schema.keyspace, ".",
                       current_table_schema.table_name >>
            names == SelectColumns(rows.query)
        IN  IF Filtered = { }
            THEN rows.query = bare /\ rows.params = << >>
            ELSE /\ Range(names) = Filtered
                 /\ Len(names) = Cardinality(Filtered)
                 /\ \A i \in 1..Len(names), j \in 1..Len(names) :
                        i < j => ColumnIndex(current_table_schema, names[i])
                                     < ColumnIndex(current_table_schema, names[j])
                 /\ rows.query =
                        bare \o << " WHERE " >>
                        \o Join([ i \in 1..Len(names) |-> << names[i], " = %s" >> ],
                                << " AND " >>)
                        \o << " ALLOW FILTERING" >>
                 /\ rows.params = [ i \in 1..Len(names) |-> filter_text[names[i]] ]

\* a grid render with two filters of different values
C13_Witness ==
    /\ rows.outcome # "none"
    /\ filter_text["id"] = "a"
    /\ filter_text["status"] = "b"
    /\ rows.params = << "a", "b" >>

\* C14: with the display cap, a statement that has a LIMIT clause is executed with
\* that clause's number replaced by the cap and the user is told which limit was
\* overridden; a statement that has none is executed with LIMIT and the cap
\* appended; the rest of the text is as typed; without the cap the statement is
\* executed as typed.
C14_CapReplacesOrAppendsTheLimit ==
    Applied("cql_editor") =>
        /\ ret.outcome = "executed"
        /\ ~call.extended_mode =>
               ret.query = statement_text(call) /\ ret.warning = << >>
        /\ ( call.extended_mode /\ call.limit = "none" ) =>
               /\ ret.query = statement_text(call) \o limit_clause("cap")
               /\ ret.warning = << >>
        /\ ( call.extended_mode /\ call.limit # "none" ) =>
               /\ ret.query = statement_text([ call EXCEPT !.limit = "cap" ])
               /\ ret.warning = << "Extended mode overrides LIMIT ", "50",
                                   " with LIMIT 10." >>

-----------------------------------------------------------------------------
(* Claims on the schema catalogue *)

\* the schema with every clustering column given the direction
WithClusteringOrder(sch, direction) ==
    [ sch EXCEPT !.columns =
          [ i \in 1..Len(sch.columns) |->
                IF sch.columns[i].is_clustering_key
                THEN [ sch.columns[i] EXCEPT !.clustering_order = direction ]
                ELSE sch.columns[i] ] ]

NamesOf(columns) == [ i \in 1..Len(columns) |-> columns[i].name ]

\* C15: for partition keys a, b at positions 0, 1 and a clustering key c at position
\* 0, primary_key_columns is a, b, c whatever the order in which the catalogue
\* listed the columns and whatever the direction of c.
C15_PrimaryKeyOrderIsByPosition ==
    /\ NamesOf(primary_key_columns(schema)) = << "a", "b", "c" >>
    /\ IsKeyOrder(NamesOf(primary_key_columns(schema)), schema)
    /\ \A direction \in { "ASC", "DESC" } :
           NamesOf(primary_key_columns(WithClusteringOrder(schema, direction)))
               = << "a", "b", "c" >>

\* a delete on the table whose catalogue lists c, b, a, d
C15_Witness ==
    /\ op.kind = "delete"
    /\ NamesOf(schema.columns) = << "c", "b", "a", "d" >>
    /\ schema.columns[1].clustering_order = "desc"
    /\ PredicateColumns(op.query) = << "a", "b", "c" >>

\* C16: a table schema without partition key columns is treated as not found: no
\* grid is rendered for it and no select is built or executed.
C16_SentinelIsNotFound ==
    ( connected /\ partition_keys(current_table_schema) = << >> )
    => ( /\ rows.outcome = "none"
         /\ rows.query = << >> )

\* the role a column descriptor carries
RoleOf(c) ==
    IF c.is_partition_key THEN "partition_key"
    ELSE IF c.is_clustering_key THEN "clustering"
    ELSE "regular"

\* C17: get_table_schema returns, without raising, one column per catalogue row, in
\* row order, whose role is the row's kind; for no rows it returns no columns.
C17_OneColumnPerRowWithItsRole ==
    Applied("get_table_schema") =>
        /\ ret.outcome = "returned"
        /\ Len(ret.value.columns) = Len(call.columns)
        /\ \A i \in 1..Len(call.columns) :
               /\ ret.value.columns[i].name = call.columns[i].column_name
               /\ RoleOf(ret.value.columns[i]) = call.columns[i].kind

IsAscending(names) ==
    \A i \in 1..Len(names), j \in 1..Len(names) :
        i < j => name_rank(names[i]) < name_rank(names[j])

\* C18: get_keyspaces returns, in ascending order, exactly the keyspaces found that
\* are not one of the seven reserved names, so system_foo is listed; get_tables
\* returns the tables found in ascending order.
C18_ListingsAreSortedAndExact ==
    /\ Applied("get_keyspaces") =>
           /\ IsAscending(ret.value)
           /\ Range(ret.value) =
                  Range(call.names)
                  \ { "system", "system_auth", "system_schema", "system_distributed",
                      "system_traces", "system_views", "system_virtual_schema" }
    /\ Applied("get_tables") =>
           /\ IsAscending(ret.value)
           /\ Range(ret.value) = Range(call.names)

\* a cluster with zoo, system_foo and system_auth was listed
C18_Witness ==
    /\ Applied("get_keyspaces")
    /\ call.names = << "zoo", "system_foo", "system_auth" >>
    /\ ret.value = << "system_foo", "zoo" >>

-----------------------------------------------------------------------------
(* Claims on the frozen wrapper and on conversion failures *)

\* the type expression a frozen<...> wraps
Wrapped(text) == SubSeq(text, 3, Len(text) - 1)

\* C21: on frozen<T>, convert_value and format_value_for_display give what they
\* give on T itself for the same input, result or failure alike.
C21_FrozenIsTransparent ==
    /\ ( Applied("convert_value") /\ Head(call.cql_type) = "frozen" ) =>
           \E fresh \in FreshUuids :
               ret = convert_value(call.value, Wrapped(call.cql_type), fresh)
    /\ ( Applied("format_value_for_display") /\ Head(call.cql_type) = "frozen" ) =>
           ret = format_value_for_display(call.value, Wrapped(call.cql_type))

\* a value, neither None nor empty, that is not a value of the column's type
Uncoercible(value, text) ==
    LET base_type == parse_cql_type(text).base_type
    IN  /\ value.py = "str"
        /\ value.text # << >>
        /\ \/ /\ base_type = << "boolean" >>
               /\ value.text \notin { << "True" >>, << "False" >>, << "YES" >>, << "1" >> }
           \/ /\ base_type \in { << "int" >>, << "smallint" >>, << "tinyint" >> }
               /\ ~is_int_text(value.text)
           \/ /\ base_type \in { << "list" >>, << "set" >> }
               /\ json_loads(value.text).value.py # "list"
           \/ /\ base_type = << "map" >>
               /\ json_loads(value.text).value.py # "dict"

\* C22: convert_value never returns for a value that is not one of the column's
\* type: neither a default nor the raw value comes back in place of a failure.
C22_UncoercibleIsAFailure ==
    ( Applied("convert_value") /\ Uncoercible(call.value, call.cql_type) ) =>
        ret.outcome # "returned"

-----------------------------------------------------------------------------
(* Claim on the round trip of the conversions *)

\* a display string of the type: what format_value_for_display writes for one of
\* its values, the empty string standing for no value
DisplayString(value, text) ==
    LET base_type == parse_cql_type(text).base_type
        digits == unsigned(value.text)
        loaded == json_loads(value.text)
    IN  /\ value.py = "str"
        /\ in_registry(base_type)
        /\ \/ value.text = << >>
           \/ /\ base_type \in { << "int" >>, << "bigint" >>, << "smallint" >>,
                                 << "tinyint" >>, << "varint" >> }
              /\ is_int_text(value.text)
              /\ Head(value.text) # "+"
              /\ Len(digits) > 1 => Head(digits) # "0"
           \/ base_type = << "boolean" >> /\ value.text \in { << "True" >>, << "False" >> }
           \/ /\ base_type \in { << "uuid" >>, << "timeuuid" >> }
              /\ value.text \in { << u >> : u \in UuidTexts }
           \/ base_type \in { << "text" >>, << "counter" >>, << "frozen" >> }
           \/ base_type = << "list" >> /\ loaded.value.py = "list"
           \/ /\ base_type = << "set" >>
              /\ loaded.value.py = "list"
              /\ distinct(loaded.value.text) = loaded.value.text
           \/ base_type = << "map" >> /\ loaded.value.py = "dict"

\* the keys of a dict
KeysOf(value) == { value.text[2 * i - 1] : i \in 1..(Len(value.text) \div 2) }

-----------------------------------------------------------------------------
(* Claims on the settings *)

\* C24: set_column_metadata(keyspace, table, column, key, value) leaves value under
\* key for that triple, and changes neither the metadata of another (keyspace,
\* table, column) nor another key of the same one, dots in the names or not.
C24_MetadataIsKeyedByTheTriple ==
    [][ call'.fn = "set_column_metadata" =>
          LET after(k, t, c) == settings'.table_metadata[table_key(k, t)][c]
          IN  /\ after(call'.keyspace, call'.table, call'.column)[call'.key]
                     = [ present |-> TRUE, value |-> call'.value ]
              /\ \A k \in MetaKeyspaces, t \in MetaTables, c \in MetaColumns,
                     key \in MetaKeys :
                     << k, t, c, key >>
                         # << call'.keyspace, call'.table, call'.column, call'.key >>
                     => after(k, t, c)[key] = get_column_metadata(k, t, c)[key]
      ]_vars

\* C29: after add_connection and delete_connection in any order the names of the
\* stored profiles are pairwise different; add_connection leaves its profile as the
\* one get_connection returns for the name, delete_connection leaves none of the
\* name, and both leave every other profile as it was.
C29_ProfileNamesStayDistinct ==
    /\ \A i, j \in 1..Len(settings.connections) :
           settings.connections[i].name = settings.connections[j].name => i = j
    /\ call.fn = "add_connection" => get_connection(call.connection.name) = call.connection
    /\ call.fn = "delete_connection" =>
           \A i \in 1..Len(settings.connections) :
               settings.connections[i].name # call.connection.name
    /\ call.fn \in { "add_connection", "delete_connection" } =>
           SelectSeq(settings.connections, LAMBDA c : c.name # call.connection.name)
               = SelectSeq(call.before, LAMBDA c : c.name # call.connection.name)

\* a profile was added under a name that was in use and took the place of the old one
C29_Witness ==
    /\ call.fn = "add_connection"
    /\ call.connection = [ name |-> "p", port |-> 9142 ]
    /\ call.before = << [ name |-> "p", port |-> 9042 ], [ name |-> "q", port |-> 9042 ] >>
    /\ settings.connections = << [ name |-> "q", port |-> 9042 ],
                                 [ name |-> "p", port |-> 9142 ] >>

-----------------------------------------------------------------------------
(* Claim on the columns of a table in display order *)

\* C30: for a schema get_table_schema returned, all_columns_sorted holds every
\* column exactly once, the key columns before the others, and primary_key_columns
\* and regular_columns share no column and together hold them all.
C30_AllColumnsSortedIsAPermutation ==
    Applied("get_table_schema") =>
        LET sch == ret.value
            sorted == all_columns_sorted(sch)
            is_key(c) == c.is_partition_key \/ c.is_clustering_key
        IN  /\ Len(sorted) = Len(sch.columns)
            /\ Range(sorted) = Range(sch.columns)
            /\ \A i, j \in 1..Len(sorted) : sorted[i] = sorted[j] => i = j
            /\ \A i, j \in 1..Len(sorted) : ( is_key(sorted[j]) /\ ~is_key(sorted[i]) ) => j < i
            /\ Range(primary_key_columns(sch)) \cap Range(regular_columns(sch)) = { }
            /\ Range(primary_key_columns(sch)) \cup Range(regular_columns(sch))
                   = Range(sch.columns)

\* the catalogue listed a static column, then the clustering key, then the partition
\* key, and the display order begins with the keys
C30_Witness ==
    /\ Applied("get_table_schema")
    /\ NamesOf(ret.value.columns) = << "s", "q", "p" >>
    /\ NamesOf(all_columns_sorted(ret.value)) = << "p", "q", "s" >>

-----------------------------------------------------------------------------
(* Claim on the shape of the paging pair *)

-----------------------------------------------------------------------------
(* Claim on the connection manager *)

\* C28: after connect(profile), is_connected is true exactly when the result
\* reports success; after a failure there is no session, no current profile and no
\* current keyspace, and in either case no session opened earlier is still live.
C28_ConnectedIffSuccess ==
    call.fn = "connect" =>
        /\ is_connected <=> ret.success
        /\ ~ret.success =>
               /\ manager.session = 0
               /\ manager.current_profile = "None"
               /\ manager.current_keyspace = "None"
        /\ manager.live \subseteq { manager.session }

-----------------------------------------------------------------------------
(* Claim on the map-schema editor *)

\* C26: "Save Schema" stores, under the map_schema key of the column the editor is
\* open for, that column's schema as the Add and Remove steps taken while the
\* column was the target changed it, and changes nothing else of the overlay;
\* "Cancel" leaves the overlay as it was.
C26_SaveStoresTheTargetsSchema ==
    [][ /\ call'.fn = "save_schema" =>
               settings' = set_column_metadata(<< "a" >>, << "c" >>, call'.column,
                                               "map_schema", call.own)
        /\ call'.fn = "cancel_edit" => settings' = settings
      ]_vars

=============================================================================
